---- MODULE Spec2Model ----
(***************************************************************************)
(* Methuselah pattern finder for Conway's Game of Life.                    *)
(*                                                                         *)
(* The state machines modelled:                                            *)
(*   Spec       one GameOfLife object: construction, then run(), one loop  *)
(*              iteration (with its call of step()) per action;            *)
(*   SpecGA     one GeneticAlgorithm object: evaluate() calls against the  *)
(*              configuration_cache;                                       *)
(*   SpecRun    GeneticAlgorithm.run(): initialize(), then per generation  *)
(*              populate(), compute_generation(), adjust_mutation_rate()   *)
(*              and check_for_stagnation(), then get_experiment_results(); *)
(*   SpecRate   the two mutation-rate methods over long runs;              *)
(*   SpecGrowth max_difference_with_distance() applied to a list;          *)
(*   SpecSelect the three parent-selection methods on a population;        *)
(*   SpecDegenerate run() of objects built with degenerate arguments;      *)
(*   SpecFitness calc_fitness() applied to metrics;                        *)
(*   SpecEnrich one populate() at an enrichment generation;                *)
(*   SpecCross  the three crossover strategies on two parents;             *)
(*   SpecLoop   run() from the constructor or from an enrichment           *)
(*              generation on.                                             *)
(* A grid is the flattened tuple of its N*N cells, row-major, as in the    *)
(* source; TLA+ tuples are 1-based, so flat index k is element k + 1.      *)
(***************************************************************************)
EXTENDS Integers, Sequences, FiniteSets, TLC

VARIABLES
    game,                \* the GameOfLife object (its attributes)
    limiter,             \* run(): the local countdown of iterations
    pc,                  \* run(): "loop" while in the while loop, "done" after
    steps,               \* number of step() calls made so far
    current_grid,        \* step(): local copy of the grid it started from
    neighbor_count,      \* step(): local neighbour counts
    next_grid,           \* step(): local successor grid
    ga,                  \* the GeneticAlgorithm object (its attributes)
    called,              \* the last evaluate() call: its argument and outcome
    simulations,         \* configuration -> number of GameOfLife objects run for it
    first_result,        \* configuration -> what the first evaluate() of it returned
    run_pc,              \* GeneticAlgorithm.run(): the call it makes next
    loop_generation,     \* GeneticAlgorithm.run(): the loop variable generation
    pool,                \* populate(): the locals of the last call
    drawn_freely,        \* has a populate() call drawn its children freely?
    experiment_results,  \* what get_experiment_results() returned
    fn_lst,              \* a method called on its own: its arguments
    fn_result            \* a method called on its own: its outcome

lifeVars == <<game, limiter, pc, steps, current_grid, neighbor_count, next_grid>>
gaVars == <<ga, called, simulations, first_result>>
runVars == <<run_pc, loop_generation, pool, drawn_freely, experiment_results>>
fnVars == <<fn_lst, fn_result>>
vars == <<lifeVars, gaVars, runVars, fnVars>>

-----------------------------------------------------------------------------
(* Bounds of the model *)

MaxGridSize == 4         \* grids of 1x1 .. MaxGridSize x MaxGridSize
MaxInitialAlive == 3     \* at most this many live cells in an initial grid
MaxSmallLimit == 2       \* iteration limits 1..MaxSmallLimit besides the default
MaxLiveRun == 3          \* evaluate() inputs: the first 0..MaxLiveRun cells alive
MaxPatternSize == 6      \* the named patterns are run on grids up to this size
MaxListLen == 4          \* lists of alive counts have 1..MaxListLen entries
MaxAliveCount == 8       \* alive counts in those lists are 0..MaxAliveCount
MaxPopulationSize == 3   \* population_size of the runs
MaxGenerations == 6      \* generations of the longest runs

(* Program constants *)

DefaultIterationLimit == 150000
MaxStableGenerations == 10
TournamentSize == 3
EnrichEvery == 5
StagnationWindow == 10
TopConfigs == 10

-----------------------------------------------------------------------------
(* Helpers over tuples *)

RECURSIVE SumTo(_, _)
SumTo(s, n) == IF n = 0 THEN 0 ELSE s[n] + SumTo(s, n - 1)

\* sum(s), np.sum(s)
SumSeq(s) == SumTo(s, Len(s))

RECURSIVE MaxTo(_, _)
MaxTo(s, n) == IF n = 1 THEN s[1]
               ELSE LET m == MaxTo(s, n - 1) IN IF s[n] > m THEN s[n] ELSE m

\* max(s) of a non-empty tuple
MaxSeq(s) == MaxTo(s, Len(s))

Last(s) == s[Len(s)]

\* the value of a variable of the machine that is not running
NoObject == "none"

\* the variables of GeneticAlgorithm.run() while no run is modelled
RunIdle ==
    /\ run_pc = NoObject
    /\ loop_generation = 0
    /\ pool = <<>>
    /\ drawn_freely = FALSE
    /\ experiment_results = <<>>

\* the variables of max_difference_with_distance while it is not modelled
FnIdle ==
    /\ fn_lst = <<>>
    /\ fn_result = NoObject

\* the grid of n cells whose live cells are exactly those at the flat indices in S
GridOf(n, S) == [k \in 1..n |-> IF (k - 1) \in S THEN 1 ELSE 0]

RECURSIVE SubsetsUpTo(_, _)
SubsetsUpTo(U, k) ==
    IF k = 0 THEN {{}}
    ELSE LET prev == SubsetsUpTo(U, k - 1)
         IN  prev \cup {S \cup {x} : S \in prev, x \in U}

\* The initial grids of size N x N: the all-dead grid and every grid with at
\* most MaxInitialAlive live cells, one of them cell (0, 0). Counting, the
\* update rule and run() commute with the translations of the torus, and every
\* grid with a live cell has a translate with a live cell at (0, 0).
InitialGrids(N) ==
    {GridOf(N * N, {})} \cup
    {GridOf(N * N, S \cup {0}) : S \in SubsetsUpTo(1..(N * N - 1), MaxInitialAlive - 1)}

\* the 3-cell blinker, horizontal phase, in the top row of an N x N grid
Blinker(N) == GridOf(N * N, {0, 1, 2})

\* the 2 x 2 block in the top left corner of an N x N grid
Block(N) == GridOf(N * N, {0, 1, N, N + 1})

\* the named patterns run on an N x N grid: the block from size 4 on, the
\* blinker from size 5 on (sizes at which they do not meet themselves
\* around the torus)
NamedPatterns(N) ==
    (IF N >= 4 THEN {Block(N)} ELSE {}) \cup (IF N >= 5 THEN {Blinker(N)} ELSE {})

\* the initial states handed to the constructor for grid size N
InitialStates(N) ==
    (IF N <= MaxGridSize THEN InitialGrids(N) ELSE {}) \cup NamedPatterns(N)

\* game_iteration_limit: the constructor's default, and small values of the
\* attribute so that a run can use up its limit on these grids
IterationLimits == (1..MaxSmallLimit) \cup {DefaultIterationLimit}

-----------------------------------------------------------------------------
(* GameOfLife *)

\* grid.reshape((N, N))[r][c] with the row and column wrapped around
Cell(grid, N, r, c) == grid[(r % N) * N + (c % N) + 1]

kernel == << <<1, 1, 1>>,
             <<1, 0, 1>>,
             <<1, 1, 1>> >>

\* as Convolve2dWrap, but with cells outside the grid read as dead (no wrap)
Convolve2dFill(grid, N, r, c) ==
    LET At(rr, cc) == IF rr \in 0..(N - 1) /\ cc \in 0..(N - 1)
                      THEN grid[rr * N + cc + 1] ELSE 0
    IN    kernel[1][1] * At(r + 1, c + 1) + kernel[1][2] * At(r + 1, c)
        + kernel[1][3] * At(r + 1, c - 1) + kernel[2][1] * At(r, c + 1)
        + kernel[2][2] * At(r, c)         + kernel[2][3] * At(r, c - 1)
        + kernel[3][1] * At(r - 1, c + 1) + kernel[3][2] * At(r - 1, c)
        + kernel[3][3] * At(r - 1, c - 1)

\* convolve2d(grid_2d, kernel, mode='same', boundary='wrap') at (r, c):
\* the sum over the kernel's entries (i, j) of kernel[i][j] * grid[r+1-i][c+1-j]
Convolve2dWrap(grid, N, r, c) ==
      kernel[1][1] * Cell(grid, N, r + 1, c + 1)
    + kernel[1][2] * Cell(grid, N, r + 1, c)
    + kernel[1][3] * Cell(grid, N, r + 1, c - 1)
    + kernel[2][1] * Cell(grid, N, r, c + 1)
    + kernel[2][2] * Cell(grid, N, r, c)
    + kernel[2][3] * Cell(grid, N, r, c - 1)
    + kernel[3][1] * Cell(grid, N, r - 1, c + 1)
    + kernel[3][2] * Cell(grid, N, r - 1, c)
    + kernel[3][3] * Cell(grid, N, r - 1, c - 1)

count_alive_neighbors(grid, N) ==
    [k \in 1..(N * N) |-> Convolve2dWrap(grid, N, (k - 1) \div N, (k - 1) % N)]

\* as compute_next_generation, but a dead cell is born with 2 neighbours
compute_next_generation_birth2(cur, counts) ==
    [k \in 1..Len(cur) |->
        LET survive == (cur[k] = 1) /\ ((counts[k] = 2) \/ (counts[k] = 3))
            birth   == (cur[k] = 0) /\ (counts[k] = 2)
        IN  IF survive \/ birth THEN 1 ELSE 0]

compute_next_generation(cur, counts) ==
    [k \in 1..Len(cur) |->
        LET survive == (cur[k] = 1) /\ ((counts[k] = 2) \/ (counts[k] = 3))
            birth   == (cur[k] = 0) /\ (counts[k] = 3)
        IN  IF survive \/ birth THEN 1 ELSE 0]

\* GameOfLife.__init__(grid_size, initial_state) with a state of the right length
NewGame(N, initial_state, limit) ==
    [ grid_size              |-> N,
      grid                   |-> initial_state,
      initial_state          |-> initial_state,
      history                |-> <<>>,
      game_iteration_limit   |-> limit,
      stable_count           |-> 0,
      max_stable_generations |-> MaxStableGenerations,
      lifespan               |-> 0,
      is_static              |-> FALSE,
      is_periodic            |-> FALSE,
      alive_history          |-> <<SumSeq(initial_state)>>,
      unique_states          |-> {initial_state} ]

\* as StepDecide, but with the visited-set test made before the equality test
StepDecidePeriodicFirst(g, nxt) ==
    IF nxt \in g.unique_states THEN [g EXCEPT !.is_periodic = TRUE]
    ELSE IF nxt = g.grid THEN [g EXCEPT !.is_static = TRUE]
    ELSE [g EXCEPT !.grid = nxt,
                   !.history = Append(@, g.grid),
                   !.unique_states = @ \cup {nxt}]

\* GameOfLife.step(): the static / periodic / advance decision, given the
\* successor grid nxt that step() computed for the object's grid
\* as StepDecide, but an unchanged grid sets both flags
StepDecideBothFlags(g, nxt) ==
    IF nxt = g.grid THEN [g EXCEPT !.is_static = TRUE, !.is_periodic = TRUE]
    ELSE IF nxt \in g.unique_states THEN [g EXCEPT !.is_periodic = TRUE]
    ELSE [g EXCEPT !.grid = nxt,
                   !.history = Append(@, g.grid),
                   !.unique_states = @ \cup {nxt}]

\* as StepDecide, but a grid seen before is moved to as well
StepDecideFollowingCycle(g, nxt) ==
    IF nxt = g.grid THEN [g EXCEPT !.is_static = TRUE]
    ELSE IF nxt \in g.unique_states THEN [g EXCEPT !.is_periodic = TRUE, !.grid = nxt]
    ELSE [g EXCEPT !.grid = nxt,
                   !.history = Append(@, g.grid),
                   !.unique_states = @ \cup {nxt}]

StepDecide(g, nxt) ==
    IF nxt = g.grid THEN [g EXCEPT !.is_static = TRUE]
    ELSE IF nxt \in g.unique_states THEN [g EXCEPT !.is_periodic = TRUE]
    ELSE [g EXCEPT !.grid = nxt,
                   !.history = Append(@, g.grid),
                   !.unique_states = @ \cup {nxt}]

\* GameOfLife.step() on object g
step(g) ==
    StepDecide(g, compute_next_generation(g.grid,
                      count_alive_neighbors(g.grid, g.grid_size)))

\* as LoopCondition, but the loop ends as soon as a flag is set
LoopConditionStopAtOnce(g, lim) ==
    /\ lim > 0
    /\ ~g.is_static /\ ~g.is_periodic

\* as LoopCondition, but the stability window is left one iteration later
LoopConditionOneMore(g, lim) ==
    /\ lim > 0
    /\ \/ (~g.is_static /\ ~g.is_periodic)
       \/ g.stable_count <= g.max_stable_generations

\* the while condition of run()
\* as LoopCondition, but without the test of the limiter
LoopConditionUnlimited(g, lim) ==
    \/ (~g.is_static /\ ~g.is_periodic)
    \/ g.stable_count < g.max_stable_generations

LoopCondition(g, lim) ==
    /\ lim > 0
    /\ \/ (~g.is_static /\ ~g.is_periodic)
       \/ g.stable_count < g.max_stable_generations

\* as NoCellAlive, but never true: the dead grid is stepped like any other
NoCellAliveNever(g) == FALSE

\* run(): alive_cell_count == 0
NoCellAlive(g) == SumSeq(g.grid) = 0

\* as AllDeadBranch, but the flag is not set
AllDeadBranchNoFlag(g) ==
    [g EXCEPT !.alive_history = Append(@, 0)]

\* run(): the branch taken when no cell is alive (marks static, then break)
AllDeadBranch(g) ==
    [g EXCEPT !.is_static = TRUE, !.alive_history = Append(@, 0)]

\* as BeforeStep, but lifespan is counted in every iteration
BeforeStepAlwaysCount(g) ==
    LET stable == g.is_periodic \/ g.is_static
    IN  [g EXCEPT !.alive_history = Append(@, SumSeq(g.grid)),
                  !.history = Append(@, g.grid),
                  !.stable_count = IF stable THEN @ + 1 ELSE @,
                  !.lifespan = @ + 1]

\* run(): the loop body up to the call of step()
BeforeStep(g) ==
    LET stable == g.is_periodic \/ g.is_static
    IN  [g EXCEPT !.alive_history = Append(@, SumSeq(g.grid)),
                  !.history = Append(@, g.grid),
                  !.stable_count = IF stable THEN @ + 1 ELSE @,
                  !.lifespan = IF stable THEN @ ELSE @ + 1]

\* GameOfLife.run(), from the loop's test to the return
RECURSIVE RunLoop(_, _)
RunLoop(g, lim) ==
    IF ~LoopCondition(g, lim) THEN g
    ELSE IF NoCellAlive(g) THEN AllDeadBranch(g)
    ELSE RunLoop(step(BeforeStep(g)), lim - 1)

run(g) == RunLoop(g, g.game_iteration_limit)

-----------------------------------------------------------------------------
(* Exact fractions <<numerator, denominator>> in lowest terms, denominator  *)
(* positive, for the program's float arithmetic                             *)

Abs(n) == IF n < 0 THEN -n ELSE n

RECURSIVE GCD(_, _)
GCD(a, b) == IF b = 0 THEN a ELSE GCD(b, a % b)

\* 0/0, the float nan, stays <<0, 0>>
Rat(n, d) == LET g == GCD(Abs(n), d) IN IF g = 0 THEN <<0, 0>> ELSE <<n \div g, d \div g>>

RatInt(n) == <<n, 1>>
RatAdd(x, y) == Rat(x[1] * y[2] + y[1] * x[2], x[2] * y[2])
RatMul(x, y) == Rat(x[1] * y[1], x[2] * y[2])
RatLess(x, y) == x[1] * y[2] < y[1] * x[2]
RatMax(x, y) == IF RatLess(x, y) THEN y ELSE x
RatInv(x) == Rat(x[2], x[1])

\* the value standing for a division by zero (ZeroDivisionError)
ZeroDivisionError == <<1, 0>>

-----------------------------------------------------------------------------
(* GeneticAlgorithm *)

\* GeneticAlgorithm.__init__: the attributes evaluate() and calc_fitness() use
NewGA(N, w) ==
    [ grid_size           |-> N,
      alive_cells_weight  |-> w.alive_cells_weight,
      lifespan_weight     |-> w.lifespan_weight,
      alive_growth_weight |-> w.alive_growth_weight,
      stableness_weight   |-> w.stableness_weight,
      initial_living_cells_count_penalty_weight |->
          w.initial_living_cells_count_penalty_weight,
      configuration_cache |-> [c \in {} |-> 0] ]

\* as calc_fitness, but the penalty is left out
calc_fitness_unpenalised(self, lifespan, max_alive_cells_count, alive_growth, stableness, initial_living_cells_count) ==
    RatAdd(RatAdd(RatMul(RatInt(lifespan), self.lifespan_weight),
                  RatMul(RatInt(max_alive_cells_count), self.alive_cells_weight)),
           RatAdd(RatMul(alive_growth, self.alive_growth_weight),
                  RatMul(stableness, self.stableness_weight)))

calc_fitness(self, lifespan, max_alive_cells_count, alive_growth, stableness, initial_living_cells_count) ==
    LET lifespan_score    == RatMul(RatInt(lifespan), self.lifespan_weight)
        alive_cells_score == RatMul(RatInt(max_alive_cells_count), self.alive_cells_weight)
        growth_score      == RatMul(alive_growth, self.alive_growth_weight)
        stableness_score  == RatMul(stableness, self.stableness_weight)
        large_configuration_penalty ==
            RatInv(RatMax(RatInt(1),
                          RatMul(RatInt(initial_living_cells_count),
                                 self.initial_living_cells_count_penalty_weight)))
    IN  RatMul(RatAdd(RatAdd(lifespan_score, alive_cells_score),
                      RatAdd(growth_score, stableness_score)),
               large_configuration_penalty)

\* the loop of max_difference_with_distance from index j (0-based) on;
\* neg_inf says that max_value is still float('-inf')
RECURSIVE MaxDifferenceLoop(_, _, _)
MaxDifferenceLoop(lst, j, st) ==
    IF j >= Len(lst) THEN st
    ELSE LET diff == (lst[j + 1] - lst[st.min_index + 1]) * (j - st.min_index)
             st1  == IF st.neg_inf \/ diff > st.max_value
                     THEN [st EXCEPT !.dis = j - st.min_index,
                                     !.max_value = diff,
                                     !.neg_inf = FALSE]
                     ELSE st
             st2  == IF lst[j + 1] < lst[st.min_index + 1]
                     THEN [st1 EXCEPT !.min_index = j]
                     ELSE st1
         IN  MaxDifferenceLoop(lst, j + 1, st2)

\* as max_difference_with_distance, but the product is not divided by dis
max_difference_unnormalised(lst) ==
    LET st == MaxDifferenceLoop(lst, 1,
                  [max_value |-> 0, neg_inf |-> TRUE, dis |-> 0, min_index |-> 0])
        top == IF st.neg_inf \/ st.max_value < 0 THEN 0 ELSE st.max_value
    IN  IF st.dis = 0 THEN ZeroDivisionError ELSE RatInt(top)

\* as max_difference_with_distance, but the loop starts at the first entry
max_difference_from_first_entry(lst) ==
    LET st == MaxDifferenceLoop(lst, 0,
                  [max_value |-> 0, neg_inf |-> TRUE, dis |-> 0, min_index |-> 0])
        top == IF st.neg_inf \/ st.max_value < 0 THEN 0 ELSE st.max_value
    IN  IF st.dis = 0 THEN ZeroDivisionError ELSE Rat(top, st.dis)

max_difference_with_distance(lst) ==
    LET st == MaxDifferenceLoop(lst, 1,
                  [max_value |-> 0, neg_inf |-> TRUE, dis |-> 0, min_index |-> 0])
        top == IF st.neg_inf \/ st.max_value < 0 THEN 0 ELSE st.max_value
    IN  IF st.dis = 0 THEN ZeroDivisionError ELSE Rat(top, st.dis)

\* the value a collections.defaultdict creates for a missing key
EmptyRecord == [k \in {} |-> 0]

\* as InCache, but the cache is never found to hold the configuration
InCacheNever(self, configuration_tuple) == FALSE

\* evaluate(): is the configuration already in configuration_cache?
InCache(self, configuration_tuple) ==
    configuration_tuple \in DOMAIN self.configuration_cache

\* evaluate(): the key under which the new record is stored
StoreKeyFinalGrid(configuration_tuple, g) == g.grid
StoreKey(configuration_tuple, g) == configuration_tuple

\* evaluate(): the record built from a finished game
CacheRecord(self, configuration_tuple, g) ==
    LET max_alive_cells_count      == MaxSeq(g.alive_history)
        initial_living_cells_count == SumSeq(configuration_tuple)
        alive_growth               == max_difference_with_distance(g.alive_history)
        stableness                 == Rat(g.stable_count, g.max_stable_generations)
    IN  [ fitness_score |-> calc_fitness(self, g.lifespan, max_alive_cells_count,
                                         alive_growth, stableness,
                                         initial_living_cells_count),
          history       |-> g.history,
          lifespan      |-> g.lifespan,
          alive_growth  |-> alive_growth,
          max_alive_cells_count |-> max_alive_cells_count,
          is_static     |-> g.is_static,
          is_periodic   |-> g.is_periodic,
          stableness    |-> stableness,
          initial_living_cells_count |-> initial_living_cells_count ]

\* self.configuration_cache[key] read from a defaultdict: a missing key is
\* inserted with an empty record
CacheGet(self, key) ==
    IF key \in DOMAIN self.configuration_cache
    THEN [self |-> self, value |-> self.configuration_cache[key]]
    ELSE [self  |-> [self EXCEPT !.configuration_cache = (key :> EmptyRecord) @@ @],
          value |-> EmptyRecord]

\* padding with dead cells / cutting to the expected length
Repaired(configuration, n) ==
    [k \in 1..n |-> IF k <= Len(configuration) THEN configuration[k] ELSE 0]

\* evaluate(configuration) on object self: the object afterwards, how the call
\* ended ("returned" or the exception raised), the value returned, and whether
\* a GameOfLife object was constructed and run. evaluate_uncached is the part
\* after the cache test; g is the finished game (bound through a one-element
\* set so that the run is computed once)
evaluate_uncached(self, configuration) ==
    LET expected_size == self.grid_size * self.grid_size
    IN  IF Len(configuration) # expected_size
        THEN [self |-> self, outcome |-> "ValueError", result |-> EmptyRecord,
              simulated |-> FALSE]
        ELSE CHOOSE out \in
                 { IF max_difference_with_distance(g.alive_history) = ZeroDivisionError
                   THEN [self |-> self, outcome |-> "ZeroDivisionError",
                         result |-> EmptyRecord, simulated |-> TRUE]
                   ELSE LET rec    == CacheRecord(self, configuration, g)
                            stored == [self EXCEPT !.configuration_cache =
                                          (StoreKey(configuration, g) :> rec) @@ @]
                            got    == CacheGet(stored, configuration)
                        IN  [self |-> got.self, outcome |-> "returned",
                             result |-> got.value, simulated |-> TRUE]
                   : g \in {run(NewGame(self.grid_size, configuration,
                                        DefaultIterationLimit))} } : TRUE

evaluate_repairing(self, configuration) ==
    LET fixed == Repaired(configuration, self.grid_size * self.grid_size)
    IN  IF InCache(self, fixed)
        THEN [self |-> self, outcome |-> "returned",
              result |-> self.configuration_cache[fixed], simulated |-> FALSE]
        ELSE evaluate_uncached(self, fixed)

\* as evaluate, but a record found in the cache is stored again without its
\* history before it is returned
evaluate_trimming(self, configuration) ==
    IF InCache(self, configuration)
    THEN LET rec == [self.configuration_cache[configuration] EXCEPT !.history = <<>>]
         IN  [self |-> [self EXCEPT !.configuration_cache[configuration] = rec],
              outcome |-> "returned", result |-> rec, simulated |-> FALSE]
    ELSE evaluate_uncached(self, configuration)

evaluate(self, configuration) ==
    IF InCache(self, configuration)
    THEN [self |-> self, outcome |-> "returned",
          result |-> self.configuration_cache[configuration], simulated |-> FALSE]
    ELSE evaluate_uncached(self, configuration)


-----------------------------------------------------------------------------
(* Spec: one GameOfLife object, constructed and run *)

Init ==
    /\ \E N \in 1..MaxPatternSize :
         \E s \in InitialStates(N) :
            \E lim \in IterationLimits :
               /\ game = NewGame(N, s, lim)
               /\ limiter = lim
    /\ pc = "loop"
    /\ steps = 0
    /\ current_grid = <<>>
    /\ neighbor_count = <<>>
    /\ next_grid = <<>>
    /\ ga = NoObject
    /\ called = NoObject
    /\ simulations = NoObject
    /\ first_result = NoObject
    /\ RunIdle
    /\ FnIdle

\* a loop iteration that finds every cell dead: mark static and break
RunAllDead ==
    /\ pc = "loop"
    /\ LoopCondition(game, limiter)
    /\ NoCellAlive(game)
    /\ game' = AllDeadBranch(game)
    /\ pc' = "done"
    /\ UNCHANGED <<limiter, steps, current_grid, neighbor_count, next_grid>>
    /\ UNCHANGED <<gaVars, runVars, fnVars>>

\* a full loop iteration: bookkeeping, step(), limiter -= 1
RunIteration ==
    /\ pc = "loop"
    /\ LoopCondition(game, limiter)
    /\ ~NoCellAlive(game)
    /\ LET g == BeforeStep(game)
       IN  /\ current_grid' = g.grid
           /\ neighbor_count' = count_alive_neighbors(g.grid, g.grid_size)
           /\ next_grid' = compute_next_generation(g.grid, neighbor_count')
           /\ game' = StepDecide(g, next_grid')
    /\ steps' = steps + 1
    /\ limiter' = limiter - 1
    /\ pc' = "loop"
    /\ UNCHANGED <<gaVars, runVars, fnVars>>

\* the while condition fails: run() returns
RunExit ==
    /\ pc = "loop"
    /\ ~LoopCondition(game, limiter)
    /\ pc' = "done"
    /\ UNCHANGED <<game, limiter, steps, current_grid, neighbor_count, next_grid>>
    /\ UNCHANGED <<gaVars, runVars, fnVars>>

Next == RunAllDead \/ RunIteration \/ RunExit

Spec == Init /\ [][Next]_vars

-----------------------------------------------------------------------------
(* Properties of GameOfLife, checked under Spec *)

\* direct summation over the 8 neighbours of cell (r, c), indices wrapped
DirectNeighbourSum(grid, N, r, c) ==
    LET Offsets == {<<dr, dc>> \in {-1, 0, 1} \X {-1, 0, 1} : <<dr, dc>> # <<0, 0>>}
        At(o) == grid[((r + o[1]) % N) * N + ((c + o[2]) % N) + 1]
    IN  Cardinality({o \in Offsets : At(o) = 1})

\* C4: the neighbour counts step() computed equal, for every cell (r, c), the
\* sum of the 8 cells at offsets (dr, dc) # (0, 0) with wraparound indexing
C4_NeighbourCountIsDirectSum ==
    steps > 0 =>
        /\ Len(neighbor_count) = game.grid_size * game.grid_size
        /\ \A r \in 0..(game.grid_size - 1) : \A c \in 0..(game.grid_size - 1) :
              neighbor_count[r * game.grid_size + c + 1]
                  = DirectNeighbourSum(current_grid, game.grid_size, r, c)

\* C4 witness: a lone live cell at (0, 0) gives the last cell of the grid a
\* neighbour across both edges
C4_Witness ==
    /\ steps > 0
    /\ game.grid_size >= 3
    /\ SumSeq(current_grid) = 1
    /\ current_grid[1] = 1
    /\ neighbor_count[game.grid_size * game.grid_size] = 1

\* C5: in the grid step() computed, a cell is live iff it was live with 2 or 3
\* neighbours or dead with exactly 3; the grid holds only 0 and 1, has the
\* input's length, and the input is still the grid the run recorded
C5_NextGenerationRule ==
    steps > 0 =>
        /\ Len(next_grid) = Len(current_grid)
        /\ \A k \in 1..Len(current_grid) :
              /\ next_grid[k] \in {0, 1}
              /\ (next_grid[k] = 1) <=>
                    \/ (current_grid[k] = 1 /\ neighbor_count[k] \in {2, 3})
                    \/ (current_grid[k] = 0 /\ neighbor_count[k] = 3)
        /\ current_grid = Last(game.history)

\* C5 witness: one step with a birth, a survival and a death
C5_Witness ==
    /\ steps > 0
    /\ \E k \in 1..Len(current_grid) : current_grid[k] = 0 /\ next_grid[k] = 1
    /\ \E k \in 1..Len(current_grid) : current_grid[k] = 1 /\ next_grid[k] = 1
    /\ \E k \in 1..Len(current_grid) : current_grid[k] = 1 /\ next_grid[k] = 0

\* the successor of a grid under the update rule
Successor(grid, N) == compute_next_generation(grid, count_alive_neighbors(grid, N))

\* C6: every step() compares the successor with the current grid first
\* (equal: Static), then with the visited set (member: Periodic), and else
\* advances the grid and adds the successor to the visited set, the run
\* staying Running; nothing but step() sets is_periodic
C6_StepClassifies ==
    [][ LET cur == game.grid
            nxt == Successor(cur, game.grid_size)
        IN  IF steps' = steps + 1
            THEN IF nxt = cur
                 THEN /\ game'.is_static
                      /\ game'.is_periodic = game.is_periodic
                      /\ game'.grid = cur
                      /\ game'.unique_states = game.unique_states
                 ELSE IF nxt \in game.unique_states
                 THEN /\ game'.is_periodic
                      /\ game'.is_static = game.is_static
                      /\ game'.grid = cur
                      /\ game'.unique_states = game.unique_states
                 ELSE /\ ~game'.is_static /\ ~game'.is_periodic
                      /\ game'.grid = nxt
                      /\ game'.unique_states = game.unique_states \cup {nxt}
            ELSE game'.is_periodic = game.is_periodic ]_vars

\* C6 witness: a run flagged Periodic by its second step
C6_Witness ==
    /\ game.is_periodic
    /\ ~game.is_static
    /\ steps = 2

\* C7 as claimed: every run that ends Static or Periodic, the all-dead case
\* included, has used the whole stability window or the whole iteration limit
C7_Original ==
    (pc = "done" /\ (game.is_static \/ game.is_periodic)) =>
        \/ game.stable_count = game.max_stable_generations
        \/ game.lifespan + game.stable_count = game.game_iteration_limit

\* C7 amended: a run flagged Static or Periodic by step() (its grid has a live
\* cell) ends with the stability window or the iteration limit used up; a run
\* marked Static because all cells are dead stops at once, its stable_count 0
C7_StabilityWindow ==
    (pc = "done" /\ (game.is_static \/ game.is_periodic)) =>
        IF SumSeq(game.grid) > 0
        THEN \/ game.stable_count = game.max_stable_generations
             \/ game.lifespan + game.stable_count = game.game_iteration_limit
        ELSE /\ game.stable_count = 0
             /\ Len(game.alive_history) = game.lifespan + 2

\* C7 witness: a run flagged by step() that ended with the window used up
C7_Witness ==
    /\ pc = "done"
    /\ game.is_static
    /\ SumSeq(game.grid) > 0
    /\ game.stable_count = game.max_stable_generations
    /\ game.lifespan + game.stable_count < game.game_iteration_limit

C9_AllDeadStaticAtStepZero ==
    (SumSeq(game.initial_state) = 0) =>
        /\ steps = 0
        /\ game.lifespan = 0
        /\ pc = "done" => /\ game.is_static
                          /\ ~game.is_periodic
                          /\ MaxSeq(game.alive_history) = 0

\* C9 witness: the finished run of an all-dead grid
C9_Witness ==
    /\ pc = "done"
    /\ SumSeq(game.initial_state) = 0
    /\ game.grid_size >= 3
    /\ game.is_static

\* a run from one live cell without live neighbours, under the default limit
SingleCellRun ==
    /\ SumSeq(game.initial_state) = 1
    /\ game.grid_size >= 2
    /\ game.game_iteration_limit = DefaultIterationLimit

\* C10 as claimed: the run of a single isolated live cell ends Static with
\* lifespan 0
C10_Original ==
    (SingleCellRun /\ pc = "done") => (game.is_static /\ game.lifespan = 0)

\* C10 amended: the cell dies in the first step and the run ends Static, not
\* Periodic, with lifespan 1: the generation in which the cell lived is counted
C10_SingleCellDies ==
    SingleCellRun =>
        /\ steps >= 1 => SumSeq(game.grid) = 0
        /\ pc = "done" => /\ game.is_static
                          /\ ~game.is_periodic
                          /\ game.lifespan = 1
                          /\ steps = 1

\* C10 witness: the finished run of a single cell
C10_Witness ==
    /\ SingleCellRun
    /\ pc = "done"
    /\ game.is_static
    /\ game.grid_size = MaxGridSize

\* a run of the blinker on a grid of size >= 5, under the default limit
BlinkerRun ==
    /\ game.grid_size >= 5
    /\ game.initial_state = Blinker(game.grid_size)
    /\ game.game_iteration_limit = DefaultIterationLimit

\* C11: the blinker is flagged Periodic, not Static, by the second step, and
\* the recorded trajectory (history) shows period 2: the horizontal phase is
\* followed by the vertical phase, and the state recorded two generations
\* after any recorded state is that same state
C11_BlinkerPeriodTwo ==
    BlinkerRun =>
        LET h  == game.history
            s0 == game.initial_state
            s1 == Successor(s0, game.grid_size)
        IN  /\ steps >= 2 => (game.is_periodic /\ ~game.is_static)
            /\ pc = "done" =>
                  /\ \E i \in 1..Len(h) : \E j \in (i + 1)..Len(h) :
                        h[i] = s0 /\ h[j] = s1
                  /\ \A i \in 1..(Len(h) - 2) : h[i + 2] = h[i]

\* C11, what the code records: the first phase twice (once by run(), once by
\* step() as it advances), then the second phase once for the iteration that
\* detects the cycle and once for each iteration of the stability window, the
\* grid no longer advancing; the first phase is never recorded again
C11_RecordedHistory ==
    (BlinkerRun /\ pc = "done") =>
        LET h  == game.history
            s0 == game.initial_state
            s1 == Successor(s0, game.grid_size)
        IN  /\ game.is_periodic /\ ~game.is_static
            /\ steps = 2 + game.max_stable_generations
            /\ Len(h) = steps + 1
            /\ \A i \in 1..Len(h) : h[i] = (IF i <= 2 THEN s0 ELSE s1)

\* C11 witness: the finished blinker run on a grid of 5 x 5 cells
C11_Witness ==
    /\ BlinkerRun
    /\ game.grid_size = 5
    /\ pc = "done"
    /\ game.is_periodic

\* a run of the 2 x 2 block on a grid of size >= 4
BlockRun ==
    /\ game.grid_size >= 4
    /\ game.initial_state = Block(game.grid_size)

\* C12: the 2 x 2 block on a grid of size >= 4 is a fixed point of the update
\* rule; the first call of step() flags the run Static by its first
\* comparison, the grid never changes and the run is never flagged Periodic
C12_BlockIsStatic ==
    BlockRun =>
        /\ Successor(game.initial_state, game.grid_size) = game.initial_state
        /\ game.grid = game.initial_state
        /\ ~game.is_periodic
        /\ game.is_static <=> (steps >= 1)
        /\ steps >= 1 => next_grid = current_grid

\* C12 witness: the block on the 4 x 4 grid after the first call of step()
C12_Witness ==
    /\ BlockRun
    /\ game.grid_size = 4
    /\ steps = 1
    /\ game.is_static
    /\ SumSeq(game.grid) = 4

\* stableness as evaluate() computes it from the finished game
Stableness(g) == Rat(g.stable_count, g.max_stable_generations)

\* C13: at the end of every run 0 <= stable_count <= max_stable_generations,
\* so that stableness = stable_count / max_stable_generations is at most 1
C13_StableCountBounded ==
    pc = "done" =>
        /\ game.stable_count \in 0..game.max_stable_generations
        /\ ~RatLess(RatInt(1), Stableness(game))

\* C13 witness: a finished run that went through the whole stability window
C13_Witness ==
    /\ pc = "done"
    /\ game.stable_count = game.max_stable_generations
    /\ Stableness(game) = RatInt(1)
    /\ limiter > 0

-----------------------------------------------------------------------------
(* SpecGA: one GeneticAlgorithm object and the evaluate() calls made on it. *)
(* Every caller (initialize, the selection methods, populate,               *)
(* compute_generation) reaches the cache through evaluate() only, so a run  *)
(* is, for the cache, a sequence of evaluate() calls.                       *)

\* grid sizes of the GeneticAlgorithm objects
GAGridSizes == {2, MaxGridSize}

\* weights handed to the constructor (fractions)
WeightProfiles ==
    { [ alive_cells_weight  |-> <<1, 1>>,
        lifespan_weight     |-> <<1, 1>>,
        alive_growth_weight |-> <<1, 1>>,
        stableness_weight   |-> <<1, 1>>,
        initial_living_cells_count_penalty_weight |-> <<1, 1>> ],
      [ alive_cells_weight  |-> <<1, 2>>,
        lifespan_weight     |-> <<2, 1>>,
        alive_growth_weight |-> <<1, 10>>,
        stableness_weight   |-> <<3, 1>>,
        initial_living_cells_count_penalty_weight |-> <<1, 2>> ] }

\* configurations of the right length handed to evaluate(): the first k cells
\* alive (k = 2 is static on the 2 x 2 torus, k = 3 a blinker from size 4 on)
ValidInputs(N) == {GridOf(N * N, 0..(k - 1)) : k \in 0..MaxLiveRun}

\* configurations one cell too short or too long
WrongLengthInputs(N) ==
    {GridOf(n, S) : n \in {N * N - 1, N * N + 1}, S \in {{}, {0}}}

EvalInputs(N) == ValidInputs(N) \cup WrongLengthInputs(N)

InitGA ==
    /\ game = NoObject
    /\ limiter = 0
    /\ pc = NoObject
    /\ steps = 0
    /\ current_grid = <<>>
    /\ neighbor_count = <<>>
    /\ next_grid = <<>>
    /\ \E N \in GAGridSizes :
         \E w \in WeightProfiles :
            /\ ga = NewGA(N, w)
            /\ simulations = [c \in EvalInputs(N) |-> 0]
    /\ called = [configuration |-> <<>>, outcome |-> "none", result |-> EmptyRecord,
                 hit |-> FALSE]
    /\ first_result = [c \in {} |-> 0]
    /\ RunIdle
    /\ FnIdle

\* one call evaluate(c)
Evaluate(c) ==
    /\ \E out \in {evaluate(ga, c)} :
           /\ ga' = out.self
           /\ called' = [configuration |-> c, outcome |-> out.outcome,
                         result |-> out.result, hit |-> InCache(ga, c)]
           /\ simulations' = [simulations EXCEPT ![c] = IF out.simulated THEN @ + 1 ELSE @]
           /\ first_result' = IF c \in DOMAIN first_result \/ out.outcome # "returned"
                              THEN first_result
                              ELSE (c :> out.result) @@ first_result
    /\ UNCHANGED <<lifeVars, runVars, fnVars>>

NextGA == \E c \in EvalInputs(ga.grid_size) : Evaluate(c)

SpecGA == InitGA /\ [][NextGA]_vars

-----------------------------------------------------------------------------
(* Properties of GeneticAlgorithm.evaluate, checked under SpecGA *)

ExpectedSize == ga.grid_size * ga.grid_size

\* C1: every evaluate(c) of a configuration of grid_size^2 cells returns, and
\* returns the very record the first evaluate(c) returned, whatever other
\* calls were made in between
C1_EvaluateIdempotent ==
    (called.outcome # "none" /\ Len(called.configuration) = ExpectedSize) =>
        /\ called.outcome = "returned"
        /\ called.configuration \in DOMAIN first_result
        /\ called.result = first_result[called.configuration]
        /\ DOMAIN called.result =
              {"fitness_score", "history", "lifespan", "alive_growth",
               "max_alive_cells_count", "is_static", "is_periodic", "stableness",
               "initial_living_cells_count"}

\* C1 witness: a repeated call answered after another configuration was
\* evaluated in between
C1_Witness ==
    /\ called.outcome = "returned"
    /\ called.hit
    /\ called.result.lifespan > 0
    /\ \E c \in DOMAIN first_result :
          /\ c # called.configuration
          /\ first_result[c] # called.result

\* C2: no configuration is simulated more than once, and a call for a
\* configuration already in the cache returns the cached record, runs no
\* simulation and changes nothing of the object
C2_OneSimulationPerConfiguration ==
    /\ [](\A c \in DOMAIN simulations : simulations[c] <= 1)
    /\ [][ \A c \in DOMAIN ga.configuration_cache :
              (called' # called /\ called'.configuration = c) =>
                  /\ ga' = ga
                  /\ simulations' = simulations
                  /\ called'.outcome = "returned"
                  /\ called'.result = ga.configuration_cache[c] ]_vars

\* C2 witness: a repeat call, with two configurations simulated once each
C2_Witness ==
    /\ called.hit
    /\ simulations[called.configuration] = 1
    /\ Cardinality({c \in DOMAIN simulations : simulations[c] = 1}) >= 2

\* C3: evaluate(c) with len(c) # grid_size^2 raises; it runs no simulation and
\* leaves configuration_cache as it was, and no configuration of another
\* length (padded or cut) ever gets into the cache
C3_WrongLengthRaises ==
    /\ [](\A c \in DOMAIN ga.configuration_cache : Len(c) = ExpectedSize)
    /\ [][ (called' # called /\ Len(called'.configuration) # ExpectedSize) =>
              /\ called'.outcome = "ValueError"
              /\ ga' = ga
              /\ simulations' = simulations ]_vars

\* C3 witness: a call that raised on a cache that already holds records
C3_Witness ==
    /\ called.outcome = "ValueError"
    /\ Len(called.configuration) # ExpectedSize
    /\ ga.configuration_cache # [c \in {} |-> 0]

-----------------------------------------------------------------------------
(* GeneticAlgorithm: the population, its random operators and the           *)
(* generation loop. A method that draws random numbers is modelled by the   *)
(* set of values it can return.                                             *)

\* GeneticAlgorithm.__init__: the object with all its attributes; the
\* generations_cache is a function from generation to its statistics,
\* population and initial_population are sets (list(set) has no order of its
\* own: the order is drawn where a list is ranked)
NewGARun(N, w, population_size, generations, initial_mutation_rate, mutation_rate_lower_limit) ==
    [ population_size           |-> population_size,
      generations               |-> generations,
      mutation_rate_lower_limit |-> mutation_rate_lower_limit,
      mutation_rate             |-> initial_mutation_rate,
      generations_cache         |-> [g \in {} |-> 0],
      population                |-> {},
      initial_population        |-> {},
      mutation_rate_history     |-> <<>> ] @@ NewGA(N, w)

\* the cells the random draws of a run are confined to: the first two cells
\* of the top row
RunCells(N) == {0, 1}

\* the configurations the random draws of a run are confined to: every
\* subset of RunCells alive (closed under the three crossovers, which copy
\* each cell from one of the parents)
RunConfigs(N) == {GridOf(N * N, S) : S \in SUBSET RunCells(N)}

\* self.evaluate(c)['fitness_score'] of a configuration already in the cache
FitnessOf(self, c) == self.configuration_cache[c].fitness_score

\* the object after evaluate() was called on every member of S
RECURSIVE evaluate_all(_, _)
evaluate_all(self, S) ==
    IF S = {} THEN self
    ELSE LET c == CHOOSE x \in S : TRUE
         IN  evaluate_all(evaluate(self, c).self, S \ {c})

\* sum of the field of the cache records of the members of S
RECURSIVE SumOver(_, _, _)
SumOver(self, S, field) ==
    IF S = {} THEN RatInt(0)
    ELSE LET c == CHOOSE x \in S : TRUE
             v == self.configuration_cache[c][field]
         IN  RatAdd(IF field \in {"fitness_score", "alive_growth", "stableness"}
                    THEN v ELSE RatInt(v),
                    SumOver(self, S \ {c}, field))

\* np.mean over the population of a field of the cache records; nan (0/0)
\* for an empty population
NaN == <<0, 0>>
MeanOver(self, S, field) ==
    IF S = {} THEN NaN
    ELSE RatMul(SumOver(self, S, field), <<1, Cardinality(S)>>)

\* tournament_selection: random.sample raises ValueError when the population
\* has fewer than tournament_size members; else the fittest of any 3 members
tournament_raises(self) == Cardinality(self.population) < TournamentSize

tournament_selection(self) ==
    {c \in self.population :
        \E T \in SUBSET self.population :
            /\ Cardinality(T) = TournamentSize
            /\ c \in T
            /\ \A d \in T : ~RatLess(FitnessOf(self, c), FitnessOf(self, d))}

\* roulette_wheel_selection: with total fitness 0 it calls random.choice on
\* the population, a set, which raises TypeError; else any member of non-zero
\* weight
roulette_raises(self) == SumOver(self, self.population, "fitness_score") = RatInt(0)

roulette_wheel_selection(self) ==
    {c \in self.population : FitnessOf(self, c) # RatInt(0)}

\* rank_based_selection: every member has a positive weight
rank_based_selection(self) == self.population

\* select_parents: one method, drawn at random, is called twice
select_parents_raises(self) ==
    self.population = {} \/ tournament_raises(self) \/ roulette_raises(self)

select_parents(self) ==
    (IF tournament_raises(self) THEN {}
     ELSE tournament_selection(self) \X tournament_selection(self))
    \cup (IF roulette_raises(self) THEN {}
          ELSE roulette_wheel_selection(self) \X roulette_wheel_selection(self))
    \cup (rank_based_selection(self) \X rank_based_selection(self))

crossover_basic(self, parent1, parent2) ==
    [k \in 1..(self.grid_size * self.grid_size) |->
        IF (k - 1) % 2 = 0 THEN parent1[k] ELSE parent2[k]]

\* child_blocks: the rows 0..i-1 of the child, each the slice
\* parent[row * N : (row + 1) * N] of the parent that from[row] names,
\* appended in row order (child_blocks.extend)
RECURSIVE child_blocks(_, _, _, _, _)
child_blocks(N, from, parent1, parent2, i) ==
    IF i = 0 THEN << >>
    ELSE LET parent == IF from[i - 1] = 1 THEN parent1 ELSE parent2
         IN  child_blocks(N, from, parent1, parent2, i - 1)
                 \o SubSeq(parent, (i - 1) * N + 1, i * N)

\* the repair after the rows are joined: a child that is not total_cells
\* long is filled up with zeros
pad_child(blocks, total_cells) ==
    IF Len(blocks) # total_cells
    THEN blocks \o [k \in 1..(total_cells - Len(blocks)) |-> 0]
    ELSE blocks

\* crossover_simple with each child row taken one row further down the
\* parent
crossover_simple_shifted(self, parent1, parent2) ==
    LET N == self.grid_size
    IN  [k \in 1..(N * N) |->
            LET j == ((k - 1 + N) % (N * N)) + 1
            IN  IF ((k - 1) \div N) % 2 = 0 THEN parent2[j] ELSE parent1[j]]

crossover_simple(self, parent1, parent2) ==
    LET N    == self.grid_size
        from == [i \in 0..(N - 1) |-> IF i % 2 = 0 THEN 2 ELSE 1]
    IN  pad_child(child_blocks(N, from, parent1, parent2, N), N * N)

\* crossover_complex: at least one row is drawn for parent1 and, from the
\* rows left, at least one for parent2 (all weights are positive); every
\* other row comes from either parent
crossover_complex(self, parent1, parent2) ==
    LET N    == self.grid_size
        rows == 0..(N - 1)
    IN  { pad_child(child_blocks(N, from, parent1, parent2, N), N * N) :
          from \in {f \in [rows -> {1, 2}] :
                       (\E i \in rows : f[i] = 1) /\ (\E i \in rows : f[i] = 2)} }

crossover(self, parent1, parent2) ==
    {crossover_basic(self, parent1, parent2), crossover_simple(self, parent1, parent2)}
    \cup crossover_complex(self, parent1, parent2)

\* mutate: mutate_harsh with cluster_size = len(configuration) redraws every
\* cell, so any configuration can be returned (mutate_basic and
\* mutate_clusters return some of them); here those within RunConfigs
mutate(self, configuration) == RunConfigs(self.grid_size)

\* populate(): the children one iteration of the loop can add
Children(self) ==
    LET crossed == UNION {crossover(self, pp[1], pp[2]) : pp \in select_parents(self)}
        plain   == IF RatLess(self.mutation_rate, RatInt(1)) THEN crossed ELSE {}
        mutated == IF RatLess(RatInt(0), self.mutation_rate)
                   THEN UNION {mutate(self, x) : x \in crossed} ELSE {}
    IN  (plain \cup mutated) \cap RunConfigs(self.grid_size)

\* the sets that k random draws from S can add to a set
Draws(S, k) == {D \in SUBSET S : Cardinality(D) <= k /\ (k > 0 => D # {})}

\* the 3 x 3 neighbourhood, wrapped, of the cell at flat index centre
Window(N, centre) ==
    {(((centre \div N) + dr) % N) * N + (((centre % N) + dc) % N) :
        dr \in {-1, 0, 1}, dc \in {-1, 0, 1}}

LiveCells(c) == {k - 1 : k \in {i \in 1..Len(c) : c[i] = 1}}

\* enrich_population_with_variety, cluster configurations: 1..N // 3 clusters,
\* each of 1..N cells within the neighbourhood of its centre
ClusterConfigs(N) ==
    {c \in RunConfigs(N) :
        \E centres \in SubsetsUpTo(0..(N * N - 1), N \div 3) :
            /\ centres # {}
            /\ LiveCells(c) \subseteq UNION {Window(N, z) : z \in centres}
            /\ \A z \in centres : LiveCells(c) \cap Window(N, z) # {}
            /\ Cardinality(LiveCells(c)) <= Cardinality(centres) * N}

\* scattered configurations: 1..max_scattered_cells distinct cells
ScatterConfigs(N) ==
    {c \in RunConfigs(N) : SumSeq(c) \in 1..((((N * N) \div 3) \div 4) * 2)}

\* simple patterns: each cell alive or not, then filled up to pattern_cells
\* (at least 1) live cells
PatternConfigs(N) == {c \in RunConfigs(N) : SumSeq(c) >= 1}

\* enrich_population_with_variety: the populations it can leave
enrich_population_with_variety(self, clusters_type_amount, scatter_type_amount, basic_patterns_type_amount) ==
    { self.population \cup A \cup B \cup C :
        A \in Draws(ClusterConfigs(self.grid_size), clusters_type_amount),
        B \in Draws(ScatterConfigs(self.grid_size), scatter_type_amount),
        C \in Draws(PatternConfigs(self.grid_size), basic_patterns_type_amount) }

\* the largest fitness among the members of S (non-empty)
MaxFitness(self, S) ==
    FitnessOf(self, CHOOSE c \in S : \A d \in S : ~RatLess(FitnessOf(self, c), FitnessOf(self, d)))

\* as TopSets, but only the second list is kept
TopSetsSecondListOnly(self, A, B, r) == {B}

\* as TopSets, but only one fittest configuration is kept
TopSetsBestOnly(self, A, B, r) ==
    {{c} : c \in {x \in A \cup B : FitnessOf(self, x) = MaxFitness(self, A \cup B)}}

\* as TopSets, but nothing is cut off the ranked list
TopSetsUncut(self, A, B, r) == {A \cup B}

\* populate(): the sets {config for config, _ in fitness_scores[:r]} that the
\* stable descending sort of list(A) + list(B) can give, the two lists being
\* in any order: from the best fitness down, the members of A of one fitness
\* precede those of B, and a configuration in both lists is listed twice
RECURSIVE TopSets(_, _, _, _)
TopSets(self, A, B, r) ==
    IF r <= 0 \/ A \cup B = {} THEN {{}}
    ELSE LET v  == MaxFitness(self, A \cup B)
             Av == {c \in A : FitnessOf(self, c) = v}
             Bv == {c \in B : FitnessOf(self, c) = v}
             a  == Cardinality(Av)
             b  == Cardinality(Bv)
         IN  IF a + b <= r
             THEN {Av \cup Bv \cup T : T \in TopSets(self, A \ Av, B \ Bv, r - a - b)}
             ELSE IF a >= r
             THEN {S \in SUBSET Av : Cardinality(S) = r}
             ELSE {Av \cup S : S \in {X \in SUBSET Bv : Cardinality(X) = r - a}}

\* as EnrichmentDue, but every 2 * EnrichEvery generations
EnrichmentDueHalfAsOften(self) == Cardinality(DOMAIN self.generations_cache) % (2 * EnrichEvery) = 0

\* populate(): is this the call in which new individuals are injected?
EnrichmentDue(self) == Cardinality(DOMAIN self.generations_cache) % EnrichEvery = 0

\* populate(): the three arguments of its call of
\* enrich_population_with_variety, the numbers of configurations generated
\* of each family
EnrichAmounts(self) ==
    LET num_new_individuals == self.population_size \div 4
    IN  <<num_new_individuals \div 3, num_new_individuals \div 3, num_new_individuals \div 3>>

\* as PopulateCut, but initial_population is the set object self.population
\* names while the pool is ranked, and so holds what was added to it
PopulateCutAliasing(self, ev, children, grown, second) ==
    { [self |-> [ev EXCEPT !.population = next, !.initial_population = grown],
       previous |-> self.population, children |-> children,
       population |-> grown, new_population |-> second,
       enriching |-> EnrichmentDue(self),
       amounts |-> IF EnrichmentDue(self) THEN EnrichAmounts(self) ELSE <<0, 0, 0>>]
      : next \in TopSets(ev, grown, second, self.population_size) }

\* populate(), the ranking: ev is the object with every listed
\* configuration evaluated
PopulateCut(self, ev, children, grown, second) ==
    { [self |-> [ev EXCEPT !.population = next],
       previous |-> self.population, children |-> children,
       population |-> grown, new_population |-> second,
       enriching |-> EnrichmentDue(self),
       amounts |-> IF EnrichmentDue(self) THEN EnrichAmounts(self) ELSE <<0, 0, 0>>]
      : next \in TopSets(ev, grown, second, self.population_size) }

\* populate(), from the enrichment test on: children is new_population after
\* the loop, grown is self.population after enrich_population_with_variety
PopulateRank(self, children, grown) ==
    LET second == IF EnrichmentDue(self) THEN children \cup (grown \ children)
                  ELSE children
    IN  UNION { PopulateCut(self, ev, children, grown, second)
                : ev \in {evaluate_all([self EXCEPT !.population = grown],
                                       grown \cup second)} }

\* populate(): what new_population can be after the loop, every child drawn
\* freely
FreeDraws(self) == Draws(Children(self), self.population_size)

\* populate(): new_population after a loop in which each member of the
\* population was drawn as both parents once, and its child is its copy
CloneDraws(self) ==
    {D \in FreeDraws(self) : D = self.population}

\* populate() without an exception, new_population after the loop being one
\* of drawn: the objects it can leave, each with the locals of the call
\* (previous: self.population at entry, children: new_population after the
\* loop, population: self.population when ranked, new_population: the
\* second list ranked, enriching: was the enrichment branch taken, amounts:
\* the configurations it generated of each family)
populate(self, drawn) ==
    LET n3 == EnrichAmounts(self)[1]
    IN  UNION { PopulateRank(self, children, grown)
                : children \in drawn,
                  grown \in (IF EnrichmentDue(self)
                             THEN enrich_population_with_variety(self, n3, n3, n3)
                             ELSE {self.population}) }

\* calc_statistics: the averages written for one generation (the standard
\* deviations, irrational in general, are left out)
GenerationStatistics(self) ==
    [ avg_fitness               |-> MeanOver(self, self.population, "fitness_score"),
      avg_lifespan              |-> MeanOver(self, self.population, "lifespan"),
      avg_alive_growth_rate     |-> MeanOver(self, self.population, "alive_growth"),
      avg_max_alive_cells_count |-> MeanOver(self, self.population, "max_alive_cells_count"),
      avg_stableness            |-> MeanOver(self, self.population, "stableness"),
      avg_initial_living_cells_count |->
          MeanOver(self, self.population, "initial_living_cells_count") ]

\* as compute_generation, but the statistics replace all earlier ones
compute_generation_overwriting(self, generation) ==
    LET ev == evaluate_all(self, self.population)
    IN  [ev EXCEPT !.mutation_rate_history = Append(@, self.mutation_rate),
                   !.generations_cache = (generation :> GenerationStatistics(ev))]

compute_generation(self, generation) ==
    LET ev == evaluate_all(self, self.population)
    IN  [ev EXCEPT !.mutation_rate_history = Append(@, self.mutation_rate),
                   !.generations_cache = (generation :> GenerationStatistics(ev)) @@ @]

RatMin(x, y) == IF RatLess(y, x) THEN y ELSE x

\* as adjust_mutation_rate, but without the clamp to [lower limit, 1]
adjust_mutation_rate_unclamped(self, generation) ==
    LET improvement_ratio ==
            RatMul(self.generations_cache[generation - 1].avg_fitness,
                   RatInv(RatMax(RatInt(1), self.generations_cache[generation].avg_fitness)))
    IN  [self EXCEPT !.mutation_rate = RatMul(improvement_ratio, self.mutation_rate)]

adjust_mutation_rate(self, generation) ==
    LET improvement_ratio ==
            RatMul(self.generations_cache[generation - 1].avg_fitness,
                   RatInv(RatMax(RatInt(1), self.generations_cache[generation].avg_fitness)))
    IN  [self EXCEPT !.mutation_rate =
            RatMax(self.mutation_rate_lower_limit,
                   RatMin(RatInt(1), RatMul(improvement_ratio, self.mutation_rate)))]

\* (in set(avg_fitness) every nan counts as a value of its own: nan != nan)
check_for_stagnation(self, last_generation) ==
    IF last_generation < StagnationWindow THEN self
    ELSE LET window == (last_generation - StagnationWindow)..(last_generation - 1)
             avg_fitness == {self.generations_cache[g].avg_fitness : g \in window}
             nans == {g \in window : self.generations_cache[g].avg_fitness = NaN}
             unique_fitness_scores == Cardinality(avg_fitness \ {NaN}) + Cardinality(nans)
             total_generations == StagnationWindow
             raised == IF unique_fitness_scores = 1
                       THEN RatMin(<<1, 2>>, RatMul(self.mutation_rate, <<3, 2>>))
                       ELSE IF 2 * unique_fitness_scores < total_generations
                       THEN RatMin(<<1, 2>>, RatMul(self.mutation_rate, <<6, 5>>))
                       ELSE self.mutation_rate
         IN  [self EXCEPT !.mutation_rate = RatMax(raised, self.mutation_rate_lower_limit)]

\* the orderings of S by fitness, best first, that sorting list(S) can give
RankedLists(self, S) ==
    {s \in [1..Cardinality(S) -> S] :
        /\ \A i, j \in 1..Cardinality(S) : i < j => s[i] # s[j]
        /\ \A i \in 1..(Cardinality(S) - 1) :
              ~RatLess(FitnessOf(self, s[i]), FitnessOf(self, s[i + 1]))}

\* the record get_experiment_results builds for one configuration
ResultRecord(self, config, is_first_generation) ==
    LET rec == self.configuration_cache[config]
    IN  [ fitness_score |-> rec.fitness_score,
          lifespan |-> rec.lifespan,
          max_alive_cells_count |-> rec.max_alive_cells_count,
          alive_growth |-> rec.alive_growth,
          stableness |-> rec.stableness,
          initial_living_cells_count |-> rec.initial_living_cells_count,
          history |-> rec.history,
          config |-> config,
          is_first_generation |-> is_first_generation ]

\* as get_experiment_results, but the final population is listed worst first
get_experiment_results_ascending(self) ==
    { [i \in 1..Len(top) |-> ResultRecord(self, top[Len(top) + 1 - i], FALSE)]
      \o [i \in 1..Len(first) |-> ResultRecord(self, first[i], TRUE)]
      : top \in {SubSeq(s, 1, IF Len(s) < TopConfigs THEN Len(s) ELSE TopConfigs) :
                    s \in RankedLists(self, self.population)},
        first \in RankedLists(self, self.initial_population) }

\* get_experiment_results: the lists it can return
get_experiment_results(self) ==
    { [i \in 1..Len(top) |-> ResultRecord(self, top[i], FALSE)]
      \o [i \in 1..Len(first) |-> ResultRecord(self, first[i], TRUE)]
      : top \in {SubSeq(s, 1, IF Len(s) < TopConfigs THEN Len(s) ELSE TopConfigs) :
                    s \in RankedLists(self, self.population)},
        first \in RankedLists(self, self.initial_population) }

-----------------------------------------------------------------------------
(* SpecRun: one GeneticAlgorithm object, constructed, run() and then        *)
(* get_experiment_results(); one action per method run() calls              *)

\* population_size, generations and the two mutation-rate arguments of the
\* constructor
PopulationSizes == {MaxPopulationSize}
GenerationCounts == {1, 2, MaxGenerations}
RateProfiles ==
    { [initial_mutation_rate |-> <<1, 2>>, mutation_rate_lower_limit |-> <<1, 10>>],
      [initial_mutation_rate |-> <<3, 4>>, mutation_rate_lower_limit |-> <<1, 5>>] }

\* the locals of populate() before its first call
NoPool ==
    [ previous |-> {}, children |-> {}, population |-> {}, new_population |-> {},
      enriching |-> FALSE, amounts |-> <<0, 0, 0>> ]

\* the loop header of run(): the position after generation g - 1 is done
LoopOrReturn(self, g) == IF g < self.generations THEN "populate" ELSE "returned"

InitRun ==
    /\ game = NoObject
    /\ limiter = 0
    /\ pc = NoObject
    /\ steps = 0
    /\ current_grid = <<>>
    /\ neighbor_count = <<>>
    /\ next_grid = <<>>
    /\ called = NoObject
    /\ simulations = NoObject
    /\ first_result = NoObject
    /\ FnIdle
    /\ \E w \in WeightProfiles : \E size \in PopulationSizes :
          \E G \in GenerationCounts : \E r \in RateProfiles :
             ga = NewGARun(MaxGridSize, w, size, G, r.initial_mutation_rate,
                           r.mutation_rate_lower_limit)
    /\ run_pc = "initialize"
    /\ loop_generation = 0
    /\ pool = NoPool
    /\ drawn_freely = FALSE
    /\ experiment_results = <<>>

\* initialize(), compute_generation(0) included
Initialize ==
    /\ run_pc = "initialize"
    /\ LET uniform_amount == ga.population_size \div 3
           rem_amount     == ga.population_size % 3
       IN  \E grown \in enrich_population_with_variety(ga, uniform_amount + rem_amount,
                                                       uniform_amount, uniform_amount) :
              ga' = compute_generation([ga EXCEPT !.population = grown,
                                                  !.initial_population = grown], 0)
    /\ loop_generation' = 1
    /\ run_pc' = LoopOrReturn(ga, 1)
    /\ UNCHANGED <<pool, drawn_freely, experiment_results, lifeVars, called, simulations, first_result, fnVars>>

\* populate() returns, its children copies of the population
PopulateClones ==
    /\ run_pc = "populate"
    /\ \E out \in populate(ga, CloneDraws(ga)) :
          /\ ga' = out.self
          /\ pool' = [previous |-> out.previous, children |-> out.children,
                      population |-> out.population, new_population |-> out.new_population,
                      enriching |-> out.enriching, amounts |-> out.amounts]
    /\ run_pc' = "compute_generation"
    /\ UNCHANGED <<loop_generation, drawn_freely, experiment_results, lifeVars, called, simulations, first_result, fnVars>>

\* populate() returns, its children drawn freely: the model follows the runs
\* in which at most one call does
PopulateFreely ==
    /\ run_pc = "populate"
    /\ ~drawn_freely
    /\ \E out \in populate(ga, FreeDraws(ga)) :
          /\ ga' = out.self
          /\ pool' = [previous |-> out.previous, children |-> out.children,
                      population |-> out.population, new_population |-> out.new_population,
                      enriching |-> out.enriching, amounts |-> out.amounts]
    /\ drawn_freely' = TRUE
    /\ run_pc' = "compute_generation"
    /\ UNCHANGED <<loop_generation, experiment_results, lifeVars, called, simulations, first_result, fnVars>>

\* populate() raises in select_parents: run() ends with the exception
PopulateRaises ==
    /\ run_pc = "populate"
    /\ ga.population_size > 0
    /\ select_parents_raises(ga)
    /\ run_pc' = "raised"
    /\ UNCHANGED <<ga, loop_generation, pool, drawn_freely, experiment_results, lifeVars, called, simulations, first_result, fnVars>>

ComputeGeneration ==
    /\ run_pc = "compute_generation"
    /\ ga' = compute_generation(ga, loop_generation)
    /\ run_pc' = "adjust_mutation_rate"
    /\ UNCHANGED <<loop_generation, pool, drawn_freely, experiment_results, lifeVars, called, simulations, first_result, fnVars>>

AdjustMutationRate ==
    /\ run_pc = "adjust_mutation_rate"
    /\ ga' = adjust_mutation_rate(ga, loop_generation)
    /\ run_pc' = "check_for_stagnation"
    /\ UNCHANGED <<loop_generation, pool, drawn_freely, experiment_results, lifeVars, called, simulations, first_result, fnVars>>

\* check_for_stagnation(), then the loop header
CheckForStagnation ==
    /\ run_pc = "check_for_stagnation"
    /\ ga' = check_for_stagnation(ga, loop_generation)
    /\ loop_generation' = loop_generation + 1
    /\ run_pc' = LoopOrReturn(ga, loop_generation + 1)
    /\ UNCHANGED <<pool, drawn_freely, experiment_results, lifeVars, called, simulations, first_result, fnVars>>

\* get_experiment_results() after run() has returned
GetExperimentResults ==
    /\ run_pc = "returned"
    /\ experiment_results' \in get_experiment_results(ga)
    /\ run_pc' = "results"
    /\ UNCHANGED <<ga, loop_generation, pool, drawn_freely, lifeVars, called, simulations, first_result, fnVars>>

NextRun ==
    \/ Initialize
    \/ PopulateClones
    \/ PopulateFreely
    \/ PopulateRaises
    \/ ComputeGeneration
    \/ AdjustMutationRate
    \/ CheckForStagnation
    \/ GetExperimentResults

SpecRun == InitRun /\ [][NextRun]_vars

-----------------------------------------------------------------------------
(* Properties of the generation loop, checked under SpecRun *)

\* C15: after initialize and after every populate the population has at most
\* population_size members, each a tuple of exactly grid_size^2 cells
C15_PopulationBounded ==
    run_pc # "initialize" =>
        /\ Cardinality(ga.population) <= ga.population_size
        /\ \A c \in ga.population : Len(c) = ga.grid_size * ga.grid_size

\* C15 witness: a populate() that ranked more distinct configurations than
\* population_size and left a full population
C15_Witness ==
    /\ run_pc = "compute_generation"
    /\ Cardinality(pool.population \cup pool.new_population) > ga.population_size
    /\ Cardinality(ga.population) = ga.population_size

\* the configurations merged by the last populate(): the previous
\* population, the children and the injected individuals
MergedPool == pool.previous \cup pool.children \cup pool.population

\* C16: after every populate() the population is the population_size
\* highest-fitness unique configurations of the merged pool: it is drawn from
\* the pool, nothing left out is fitter than a member kept, and it has
\* population_size members whenever the pool holds that many distinct
\* configurations (all of the pool otherwise)
C16_TopUniqueOfPool ==
    run_pc = "compute_generation" =>
        /\ ga.population \subseteq MergedPool
        /\ \A c \in ga.population : \A d \in MergedPool \ ga.population :
              ~RatLess(FitnessOf(ga, c), FitnessOf(ga, d))
        /\ Cardinality(ga.population) =
              (IF Cardinality(MergedPool) >= ga.population_size
               THEN ga.population_size ELSE Cardinality(MergedPool))

\* C16, what the code keeps: the distinct configurations among the first
\* population_size entries of the ranked list, in which a configuration of
\* the previous population that is also a child or was merged back at an
\* enrichment is listed twice
C16_TopOfListWithRepeats ==
    run_pc = "compute_generation" =>
        /\ ga.population \in TopSets(ga, pool.population, pool.new_population,
                                     ga.population_size)
        /\ ga.population \subseteq MergedPool
        /\ \A c \in ga.population : \A d \in MergedPool \ ga.population :
              ~RatLess(FitnessOf(ga, c), FitnessOf(ga, d))

\* C16 witness: a pool of at least population_size distinct configurations
\* ranked by populate()
C16_Witness ==
    /\ run_pc = "compute_generation"
    /\ Cardinality(MergedPool) >= ga.population_size
    /\ pool.children \ pool.previous # {}

\* C18: when run() has completed, generations_cache has exactly the keys
\* 0..generations-1 and mutation_rate_history exactly generations entries;
\* a step adds at most one entry to each, both together, the new key being
\* the generation computed, and changes or removes no earlier entry
C18_OneEntryPerGeneration ==
    /\ []( run_pc \in {"returned", "results"} =>
              /\ DOMAIN ga.generations_cache = 0..(ga.generations - 1)
              /\ Len(ga.mutation_rate_history) = ga.generations )
    /\ [][ LET old == ga.generations_cache
               new == ga'.generations_cache
               h   == ga.mutation_rate_history
               h2  == ga'.mutation_rate_history
           IN  /\ DOMAIN old \subseteq DOMAIN new
               /\ \A g \in DOMAIN old : new[g] = old[g]
               /\ Len(h2) >= Len(h)
               /\ SubSeq(h2, 1, Len(h)) = h
               /\ Len(h2) - Len(h) = Cardinality(DOMAIN new \ DOMAIN old)
               /\ Len(h2) - Len(h) <= 1
               /\ DOMAIN new \ DOMAIN old \subseteq {Len(h)} ]_vars

\* C18 witness: a completed run of MaxGenerations generations
C18_Witness ==
    /\ run_pc = "returned"
    /\ ga.generations = MaxGenerations
    /\ Len(ga.mutation_rate_history) = MaxGenerations
    /\ DOMAIN ga.generations_cache = 0..(MaxGenerations - 1)

\* the records of the final population in the list returned
FinalRecords == SelectSeq(experiment_results, LAMBDA r : ~r.is_first_generation)

\* C19: get_experiment_results lists the records of the final population
\* first, in non-increasing fitness_score order, so that the first record's
\* fitness_score is at least that of every member of the final population
C19_ResultsRanked ==
    run_pc = "results" =>
        /\ \A i \in 1..(Len(FinalRecords) - 1) :
              ~RatLess(FinalRecords[i].fitness_score, FinalRecords[i + 1].fitness_score)
        /\ SubSeq(experiment_results, 1, Len(FinalRecords)) = FinalRecords
        /\ {FinalRecords[i].config : i \in 1..Len(FinalRecords)} \subseteq ga.population
        /\ Len(FinalRecords) >= 1
        /\ \A c \in ga.population :
              ~RatLess(experiment_results[1].fitness_score, FitnessOf(ga, c))

\* C19 witness: results whose final population has records of two fitness
\* values
C19_Witness ==
    /\ run_pc = "results"
    /\ Len(FinalRecords) >= 2
    /\ RatLess(FinalRecords[Len(FinalRecords)].fitness_score, FinalRecords[1].fitness_score)
    /\ ga.generations > 1

\* C20: configuration_cache is append-only: no step of a run removes a key
\* or replaces the record of a key by a different value
C20_CacheAppendOnly ==
    [][ \A c \in DOMAIN ga.configuration_cache :
           /\ c \in DOMAIN ga'.configuration_cache
           /\ ga'.configuration_cache[c] = ga.configuration_cache[c] ]_vars

\* C20 witness: a cache that grew after the first generation and whose
\* members were evaluated again in a later generation
C20_Witness ==
    /\ run_pc = "returned"
    /\ ga.generations = MaxGenerations
    /\ Cardinality(DOMAIN ga.configuration_cache) > Cardinality(ga.initial_population)
    /\ ga.initial_population \subseteq DOMAIN ga.configuration_cache

-----------------------------------------------------------------------------
(* SpecGrowth: max_difference_with_distance, the function evaluate() applies *)
(* to alive_history, on lists of alive counts                               *)

\* the lists of 1..MaxListLen alive counts in 0..MaxAliveCount
AliveCountLists ==
    UNION {[1..n -> 0..MaxAliveCount] : n \in 1..MaxListLen}

InitGrowth ==
    /\ game = NoObject
    /\ limiter = 0
    /\ pc = NoObject
    /\ steps = 0
    /\ current_grid = <<>>
    /\ neighbor_count = <<>>
    /\ next_grid = <<>>
    /\ ga = NoObject
    /\ called = NoObject
    /\ simulations = NoObject
    /\ first_result = NoObject
    /\ RunIdle
    /\ fn_lst \in AliveCountLists
    /\ fn_result = [outcome |-> "none", value |-> RatInt(0)]

\* the call max_difference_with_distance(fn_lst)
ApplyMaxDifference ==
    /\ fn_result.outcome = "none"
    /\ \E v \in {max_difference_with_distance(fn_lst)} :
          fn_result' = IF v = ZeroDivisionError
                       THEN [outcome |-> "ZeroDivisionError", value |-> v]
                       ELSE [outcome |-> "returned", value |-> v]
    /\ UNCHANGED <<lifeVars, gaVars, runVars, fn_lst>>

NextGrowth == ApplyMaxDifference

SpecGrowth == InitGrowth /\ [][NextGrowth]_vars

StrictlyIncreasing(s) == \A i \in 1..(Len(s) - 1) : s[i] < s[i + 1]

-----------------------------------------------------------------------------
(* SpecRate: the two mutation-rate methods in the order run() calls them,  *)
(* over runs long enough for the stagnation window.  populate() and        *)
(* compute_generation() are reduced to what the two methods read of their  *)
(* effect: the avg_fitness recorded for the generation.                    *)

MaxRateSteps == 2

\* the average fitness values a generation can record
FitnessValues == {<<0, 1>>, <<1, 2>>, <<1, 1>>, <<3, 1>>}

\* mutation_rate_lower_limit, with 0 < limit <= 1
LowerLimits == {<<1, 10>>, <<3, 5>>, <<1, 1>>}

\* initial_mutation_rate: any value the constructor is given
InitialRates == {<<1, 20>>, <<1, 2>>, <<1, 1>>, <<3, 2>>}

InBounds(self) ==
    /\ ~RatLess(self.mutation_rate, self.mutation_rate_lower_limit)
    /\ ~RatLess(<<1, 1>>, self.mutation_rate)

\* the avg_fitness of generations 0 .. StagnationWindow - 2 of a run:
\* all the same, two values alternating, five values, all different
FitnessWindows ==
    {[g \in 0..(StagnationWindow - 2) |-> v] : v \in FitnessValues}
    \cup {[g \in 0..(StagnationWindow - 2) |-> IF g % 2 = 0 THEN u ELSE v] :
             u \in FitnessValues, v \in FitnessValues}
    \cup {[g \in 0..(StagnationWindow - 2) |-> RatInt(g % 5)],
          [g \in 0..(StagnationWindow - 2) |-> RatInt(g)]}

\* the statistics of a generation whose average fitness is v
StatisticsWith(v) == [avg_fitness |-> v]

\* the object at the head of the loop of run(), before generation
\* Len(history): the given statistics and rates recorded so far
RateObject(w, lower, rate, fitness, history) ==
    [NewGARun(MaxGridSize, w, MaxPopulationSize, Len(history) + MaxRateSteps, rate, lower)
        EXCEPT !.generations_cache = [g \in DOMAIN fitness |-> StatisticsWith(fitness[g])],
               !.mutation_rate_history = history]

InitRate ==
    /\ game = NoObject
    /\ limiter = 0
    /\ pc = NoObject
    /\ steps = 0
    /\ current_grid = <<>>
    /\ neighbor_count = <<>>
    /\ next_grid = <<>>
    /\ called = NoObject
    /\ simulations = NoObject
    /\ first_result = NoObject
    /\ FnIdle
    /\ pool = <<>>
    /\ drawn_freely = FALSE
    /\ experiment_results = <<>>
    /\ run_pc = "populate"
    /\ \E w \in WeightProfiles : \E lower \in LowerLimits : \E rate \in InitialRates :
          \/ \E v \in FitnessValues :
                /\ ga = RateObject(w, lower, rate, (0 :> v), <<rate>>)
                /\ loop_generation = 1
          \/ \E f \in FitnessWindows :
                /\ InBounds([mutation_rate |-> rate, mutation_rate_lower_limit |-> lower])
                /\ ga = RateObject(w, lower, rate, f, [i \in 1..(StagnationWindow - 1) |-> rate])
                /\ loop_generation = StagnationWindow - 1

\* populate() and compute_generation(generation): the rate joins the
\* history and the generation's avg_fitness is recorded
RecordGeneration ==
    /\ run_pc = "populate"
    /\ \E v \in FitnessValues :
          ga' = [ga EXCEPT !.mutation_rate_history = Append(@, ga.mutation_rate),
                           !.generations_cache = (loop_generation :> StatisticsWith(v)) @@ @]
    /\ run_pc' = "adjust_mutation_rate"
    /\ UNCHANGED <<loop_generation, pool, drawn_freely, experiment_results, lifeVars, called, simulations, first_result, fnVars>>

NextRate ==
    \/ RecordGeneration
    \/ AdjustMutationRate
    \/ CheckForStagnation

SpecRate == InitRate /\ [][NextRate]_vars

\* C17: every execution of adjust_mutation_rate and of check_for_stagnation
\* leaves mutation_rate_lower_limit <= mutation_rate <= 1, whatever the
\* initial rate and the non-negative average fitness values recorded
C17_RateWithinBounds ==
    [][(AdjustMutationRate \/ CheckForStagnation) => InBounds(ga')]_vars

\* C17 witness: ten generations of average fitness 1, then one of 3: the
\* rate 1 is cut to 1/3 by adjust_mutation_rate and raised to the cap 1/2
\* by check_for_stagnation
C17_Witness ==
    /\ run_pc \in {"populate", "returned"}
    /\ loop_generation = StagnationWindow + 1
    /\ \A g \in 0..(StagnationWindow - 1) : ga.generations_cache[g].avg_fitness = <<1, 1>>
    /\ ga.generations_cache[StagnationWindow].avg_fitness = <<3, 1>>
    /\ ga.mutation_rate_history[StagnationWindow + 1] = <<1, 1>>
    /\ ga.mutation_rate_lower_limit = <<1, 10>>
    /\ ga.mutation_rate = <<1, 2>>

-----------------------------------------------------------------------------
(* SpecSelect: one call of a selection method on a GeneticAlgorithm object *)
(* whose population has been evaluated.                                    *)

\* all weights 0: every configuration has fitness 0
ZeroWeights ==
    [ alive_cells_weight  |-> <<0, 1>>,
      lifespan_weight     |-> <<0, 1>>,
      alive_growth_weight |-> <<0, 1>>,
      stableness_weight   |-> <<0, 1>>,
      initial_living_cells_count_penalty_weight |-> <<0, 1>> ]

SelectProfiles == WeightProfiles \cup {ZeroWeights}

\* the populations a run can hold: up to population_size configurations,
\* one of them at least with a live cell (the generators of initialize()
\* set cells alive, and populate() keeps the fittest)
SelectPopulations(N) ==
    {P \in SUBSET RunConfigs(N) :
        /\ Cardinality(P) \in 1..MaxPopulationSize
        /\ \E c \in P : \E k \in 1..(N * N) : c[k] = 1}

InitSelect ==
    /\ game = NoObject
    /\ limiter = 0
    /\ pc = NoObject
    /\ steps = 0
    /\ current_grid = <<>>
    /\ neighbor_count = <<>>
    /\ next_grid = <<>>
    /\ called = NoObject
    /\ simulations = NoObject
    /\ first_result = NoObject
    /\ loop_generation = 0
    /\ pool = <<>>
    /\ drawn_freely = FALSE
    /\ experiment_results = <<>>
    /\ fn_lst = <<>>
    /\ fn_result = [outcome |-> "none", value |-> <<>>]
    /\ run_pc = "select_parents"
    /\ \E N \in 3..MaxGridSize : \E w \in SelectProfiles : \E P \in SelectPopulations(N) :
          ga = evaluate_all([NewGARun(N, w, MaxPopulationSize, 2, <<1, 2>>, <<1, 10>>)
                                EXCEPT !.population = P], P)

\* the outcome of a selection method: the member returned, or the error
Selected(raises, error, members) ==
    IF raises THEN {[outcome |-> error, value |-> <<>>]}
    ELSE {[outcome |-> "returned", value |-> c] : c \in members}

TournamentSelection ==
    /\ run_pc = "select_parents"
    /\ fn_result' \in Selected(tournament_raises(ga), "ValueError", tournament_selection(ga))
    /\ run_pc' = "tournament_selection"
    /\ UNCHANGED <<ga, loop_generation, pool, drawn_freely, experiment_results, lifeVars, called, simulations, first_result, fn_lst>>

RouletteWheelSelection ==
    /\ run_pc = "select_parents"
    /\ fn_result' \in Selected(roulette_raises(ga), "TypeError", roulette_wheel_selection(ga))
    /\ run_pc' = "roulette_wheel_selection"
    /\ UNCHANGED <<ga, loop_generation, pool, drawn_freely, experiment_results, lifeVars, called, simulations, first_result, fn_lst>>

\* as rank_based_weights, but the weights run from n down to 1
rank_based_weights_fittest_first(self) ==
    LET n == Cardinality(self.population)
    IN  { [r \in 1..n |-> [individual |-> s[r], probability |-> Rat(n + 1 - r, SumSeq([i \in 1..n |-> i]))]]
          : s \in RankedLists(self, self.population) }

\* rank_based_selection: sorted_population with the probabilities handed to
\* random.choices, position by position, under every order the sort can
\* leave equally fit members in
rank_based_weights(self) ==
    LET n == Cardinality(self.population)
    IN  { [r \in 1..n |-> [individual |-> s[r], probability |-> Rat(r, SumSeq([i \in 1..n |-> i]))]]
          : s \in RankedLists(self, self.population) }

\* fn_lst takes the locals of the call: sorted_population with its weights
RankBasedSelection ==
    /\ run_pc = "select_parents"
    /\ \E table \in rank_based_weights(ga) :
          /\ fn_lst' = table
          /\ fn_result' \in Selected(FALSE, "none",
                 {table[r].individual : r \in {i \in 1..Len(table) : table[i].probability[1] > 0}})
    /\ run_pc' = "rank_based_selection"
    /\ UNCHANGED <<ga, loop_generation, pool, drawn_freely, experiment_results, lifeVars, called, simulations, first_result>>

NextSelect ==
    \/ TournamentSelection
    \/ RouletteWheelSelection
    \/ RankBasedSelection

SpecSelect == InitSelect /\ [][NextSelect]_vars

ZeroTotalFitness == \A c \in ga.population : FitnessOf(ga, c) = RatInt(0)

\* C21: called on a population of total fitness 0, roulette_wheel_selection
\* raises no error and returns a member of the population
C21_ZeroTotalFallsBack ==
    (run_pc = "roulette_wheel_selection" /\ ZeroTotalFitness) =>
        (fn_result.outcome = "returned" /\ fn_result.value \in ga.population)

\* C21, as the code behaves: random.choice is handed the set self.population
\* and raises TypeError; nothing is returned
C21_ZeroTotalRaises ==
    (run_pc = "roulette_wheel_selection" /\ ZeroTotalFitness) =>
        fn_result = [outcome |-> "TypeError", value |-> <<>>]

\* C21 witness: roulette_wheel_selection was called on a population of three
\* configurations of fitness 0
C21_Witness ==
    /\ run_pc = "roulette_wheel_selection"
    /\ Cardinality(ga.population) = 3
    /\ ZeroTotalFitness
    /\ fn_result.outcome = "TypeError"

-----------------------------------------------------------------------------
(* SpecDegenerate: run() and get_experiment_results() on an object         *)
(* constructed with population_size = 0 or generations = 0.  No call of    *)
(* select_parents is reached with population_size = 0, and no call of      *)
(* populate with generations = 0, so populate() raises in none of these    *)
(* runs.                                                                   *)

DegenerateRequests ==
    {[population_size |-> 0, generations |-> G] : G \in {0} \cup GenerationCounts}
    \cup {[population_size |-> size, generations |-> 0] : size \in PopulationSizes}

InitDegenerate ==
    /\ game = NoObject
    /\ limiter = 0
    /\ pc = NoObject
    /\ steps = 0
    /\ current_grid = <<>>
    /\ neighbor_count = <<>>
    /\ next_grid = <<>>
    /\ called = NoObject
    /\ simulations = NoObject
    /\ first_result = NoObject
    /\ FnIdle
    /\ \E w \in WeightProfiles : \E q \in DegenerateRequests : \E r \in RateProfiles :
          ga = NewGARun(MaxGridSize, w, q.population_size, q.generations,
                        r.initial_mutation_rate, r.mutation_rate_lower_limit)
    /\ run_pc = "initialize"
    /\ loop_generation = 0
    /\ pool = NoPool
    /\ drawn_freely = FALSE
    /\ experiment_results = <<>>

NextDegenerate ==
    \/ Initialize
    \/ PopulateClones
    \/ PopulateFreely
    \/ ComputeGeneration
    \/ AdjustMutationRate
    \/ CheckForStagnation
    \/ GetExperimentResults

SpecDegenerate == InitDegenerate /\ [][NextDegenerate]_vars

NothingRecorded ==
    /\ ga.population = {}
    /\ DOMAIN ga.configuration_cache = {}
    /\ DOMAIN ga.generations_cache = {}
    /\ ga.mutation_rate_history = <<>>

\* C22: a run requested with population_size = 0 or generations = 0 is
\* reported as a precondition violation before it starts: run() raises, and
\* no population is generated, no configuration evaluated, no generation
\* statistics and no mutation rate recorded
C22_DegenerateRejected ==
    /\ NothingRecorded
    /\ run_pc \in {"initialize", "raised"}

\* C22, as the code behaves: run() checks nothing and never raises; once
\* initialize() has returned, generation 0 is recorded and the initial rate
\* is in the history, and with generations = 0 and population_size > 0 a
\* population has been generated and evaluated
C22_DegenerateRuns ==
    /\ run_pc # "raised"
    /\ run_pc # "initialize" =>
          /\ 0 \in DOMAIN ga.generations_cache
          /\ Len(ga.mutation_rate_history) >= 1
          /\ ga.population_size > 0 =>
                /\ ga.population # {}
                /\ ga.population \subseteq DOMAIN ga.configuration_cache

\* C22 witness: run() has returned for generations = 0, leaving a population
\* of evaluated configurations, statistics for generation 0 and one rate
C22_Witness ==
    /\ run_pc = "returned"
    /\ ga.generations = 0
    /\ ga.population # {}
    /\ ga.population \subseteq DOMAIN ga.configuration_cache
    /\ DOMAIN ga.generations_cache = {0}
    /\ Len(ga.mutation_rate_history) = 1

\* C22 second case: run() has returned for population_size = 0 after
\* recording statistics (all nan) for every generation
C22_EmptyPopulationRan ==
    /\ run_pc = "returned"
    /\ ga.population_size = 0
    /\ ga.generations = MaxGenerations
    /\ DOMAIN ga.generations_cache = 0..(MaxGenerations - 1)
    /\ \A g \in DOMAIN ga.generations_cache : ga.generations_cache[g].avg_fitness = NaN
    /\ Len(ga.mutation_rate_history) = MaxGenerations

-----------------------------------------------------------------------------
(* SpecFitness: one call of calc_fitness on given metrics.                 *)

MaxMetric == 2

\* lifespan, max_alive_cells_count and initial_living_cells_count: counts
MetricCounts == 0..MaxMetric

\* alive_growth and stableness: non-negative fractions
MetricRatios == {<<0, 1>>, <<1, 2>>, <<3, 1>>}

InitFitness ==
    /\ game = NoObject
    /\ limiter = 0
    /\ pc = NoObject
    /\ steps = 0
    /\ current_grid = <<>>
    /\ neighbor_count = <<>>
    /\ next_grid = <<>>
    /\ called = NoObject
    /\ simulations = NoObject
    /\ first_result = NoObject
    /\ RunIdle
    /\ \E w \in SelectProfiles : ga = NewGA(MaxGridSize, w)
    /\ fn_lst \in MetricCounts \X MetricCounts \X MetricRatios \X MetricRatios \X MetricCounts
    /\ fn_result = [outcome |-> "none", value |-> RatInt(0)]

\* the call calc_fitness(*fn_lst)
ApplyCalcFitness ==
    /\ fn_result.outcome = "none"
    /\ fn_result' = [outcome |-> "returned",
                     value |-> calc_fitness(ga, fn_lst[1], fn_lst[2], fn_lst[3], fn_lst[4], fn_lst[5])]
    /\ UNCHANGED <<lifeVars, gaVars, runVars, fn_lst>>

NextFitness == ApplyCalcFitness

SpecFitness == InitFitness /\ [][NextFitness]_vars

\* lifespan * w_lifespan + max_alive * w_alive + growth * w_growth + stableness * w_stable
WeightedSum ==
    RatAdd(RatAdd(RatMul(RatInt(fn_lst[1]), ga.lifespan_weight),
                  RatMul(RatInt(fn_lst[2]), ga.alive_cells_weight)),
           RatAdd(RatMul(fn_lst[3], ga.alive_growth_weight),
                  RatMul(fn_lst[4], ga.stableness_weight)))

\* initial_living_count * penalty_weight
PenaltyProduct == RatMul(RatInt(fn_lst[5]), ga.initial_living_cells_count_penalty_weight)

\* C23: calc_fitness returns the weighted sum of the four metrics times
\* 1 / max(1, initial_living_count * penalty_weight); with non-negative
\* weights and inputs the result is >= 0, at most the weighted sum, and the
\* weighted sum itself whenever initial_living_count * penalty_weight <= 1
C23_PenalisedWeightedSum ==
    fn_result.outcome = "returned" =>
        /\ RatMul(fn_result.value, RatMax(RatInt(1), PenaltyProduct)) = WeightedSum
        /\ ~RatLess(fn_result.value, RatInt(0))
        /\ ~RatLess(WeightedSum, fn_result.value)
        /\ ~RatLess(RatInt(1), PenaltyProduct) => fn_result.value = WeightedSum

\* C23 witness: lifespan 2, max_alive 2, growth 3, stableness 1/2 and 2
\* initial cells under unit weights: the sum 15/2 is halved to 15/4
C23_Witness ==
    /\ fn_lst = <<2, 2, <<3, 1>>, <<1, 2>>, 2>>
    /\ ga.initial_living_cells_count_penalty_weight = <<1, 1>>
    /\ ga.lifespan_weight = <<1, 1>>
    /\ fn_result.outcome = "returned"
    /\ fn_result.value = <<15, 4>>

-----------------------------------------------------------------------------
(* Properties of the mutation-rate methods step by step, checked under     *)
(* SpecRate.  At an AdjustMutationRate or CheckForStagnation step of       *)
(* generation g = loop_generation, ga holds the object before the call and *)
(* ga' the object after it.                                                *)

AvgFitness(g) == ga.generations_cache[g].avg_fitness

Regressed == RatLess(AvgFitness(loop_generation), AvgFitness(loop_generation - 1))
Improved == RatLess(AvgFitness(loop_generation - 1), AvgFitness(loop_generation))

RateNotLower == ~RatLess(ga'.mutation_rate, ga.mutation_rate)
RateNotHigher == ~RatLess(ga.mutation_rate, ga'.mutation_rate)

\* C24: from a rate within [mutation_rate_lower_limit, 1],
\* adjust_mutation_rate leaves the rate no lower when the average fitness
\* regressed and no higher when it improved
C24_RateOpposesFitness ==
    [][(AdjustMutationRate /\ InBounds(ga)) =>
          /\ Regressed => RateNotLower
          /\ Improved => RateNotHigher]_vars

\* C24, as the code behaves: the rate is no higher after an improvement; it
\* is no lower after a regression from an average of at least 1, but after
\* a regression from an average below 1 it is multiplied by that average
\* (the divisor max(1, avg_fitness[g]) is 1) and so falls, down to the limit
C24_RateFallsBelowOne ==
    [][(AdjustMutationRate /\ InBounds(ga)) =>
          /\ Improved => RateNotHigher
          /\ (Regressed /\ ~RatLess(AvgFitness(loop_generation - 1), RatInt(1))) => RateNotLower
          /\ (Regressed /\ RatLess(AvgFitness(loop_generation - 1), RatInt(1))) =>
                ga'.mutation_rate =
                    RatMax(ga.mutation_rate_lower_limit,
                           RatMul(AvgFitness(loop_generation - 1), ga.mutation_rate))]_vars

\* C24 witness: the average fitness fell from 1/2 to 0 and
\* adjust_mutation_rate cut the rate from 1/2 to 1/4
C24_Witness ==
    /\ run_pc = "check_for_stagnation"
    /\ loop_generation = 1
    /\ AvgFitness(0) = <<1, 2>>
    /\ AvgFitness(1) = <<0, 1>>
    /\ ga.mutation_rate_history[2] = <<1, 2>>
    /\ ga.mutation_rate_lower_limit = <<1, 10>>
    /\ ga.mutation_rate = <<1, 4>>

\* the avg_fitness values check_for_stagnation(loop_generation) reads
StagnationValues ==
    {AvgFitness(g) : g \in (loop_generation - StagnationWindow)..(loop_generation - 1)}

\* the branches of check_for_stagnation(loop_generation) that multiply the rate
StagnationDetected ==
    /\ loop_generation >= StagnationWindow
    /\ 2 * Cardinality(StagnationValues) < StagnationWindow

\* C25: when check_for_stagnation detects stagnation (one value in the
\* window) or partial stagnation (fewer than half distinct), the rate after
\* the check is at least the rate before it
C25_StagnationRaisesRate ==
    [][(CheckForStagnation /\ StagnationDetected) => RateNotLower]_vars

\* C25, as the code behaves: the raised rate is capped at 0.5, so a rate
\* above 0.5 is cut to max(0.5, lower limit)
C25_StagnationCapsRate ==
    [][(CheckForStagnation /\ StagnationDetected) =>
          /\ ~RatLess(<<1, 2>>, ga.mutation_rate) => RateNotLower
          /\ RatLess(<<1, 2>>, ga.mutation_rate) =>
                ga'.mutation_rate = RatMax(<<1, 2>>, ga.mutation_rate_lower_limit)]_vars

\* C25 witness: ten generations of average fitness 1 and an eleventh of 1:
\* adjust_mutation_rate left the rate at 1, and check_for_stagnation cut it
\* to 1/2
C25_Witness ==
    /\ run_pc \in {"populate", "returned"}
    /\ loop_generation = StagnationWindow + 1
    /\ \A g \in 0..StagnationWindow : AvgFitness(g) = <<1, 1>>
    /\ ga.mutation_rate_history[StagnationWindow + 1] = <<1, 1>>
    /\ ga.mutation_rate_lower_limit = <<1, 10>>
    /\ ga.mutation_rate = <<1, 2>>

\* the rate a stagnation check over the generations in window leaves
RateAfterCheckOver(window) ==
    LET unique == Cardinality({AvgFitness(g) : g \in window})
        raised == IF unique = 1
                  THEN RatMin(<<1, 2>>, RatMul(ga.mutation_rate, <<3, 2>>))
                  ELSE IF 2 * unique < Cardinality(window)
                  THEN RatMin(<<1, 2>>, RatMul(ga.mutation_rate, <<6, 5>>))
                  ELSE ga.mutation_rate
    IN  RatMax(raised, ga.mutation_rate_lower_limit)

\* C26: the stagnation check after generation g examines the last 10
\* recorded generations g-9 .. g, the one just completed included, and does
\* nothing while fewer than 10 generations are recorded
C26_WindowEndsAtCurrent ==
    [][CheckForStagnation =>
          ga'.mutation_rate =
              IF loop_generation + 1 < StagnationWindow THEN ga.mutation_rate
              ELSE RateAfterCheckOver((loop_generation + 1 - StagnationWindow)..loop_generation)]_vars

\* C26, as the code behaves: the check after generation g examines
\* generations g-10 .. g-1, the one just completed left out, and does
\* nothing while g < 10, that is until 11 generations are recorded
C26_WindowEndsBeforeCurrent ==
    [][CheckForStagnation =>
          ga'.mutation_rate =
              IF loop_generation < StagnationWindow THEN ga.mutation_rate
              ELSE RateAfterCheckOver((loop_generation - StagnationWindow)..(loop_generation - 1))]_vars

\* C26 witness: generations 0 .. 9 have average fitness 1 and generation 10
\* has 3; adjust_mutation_rate cuts the rate 1/2 to 1/6, and the check after
\* generation 10 takes the run for fully stagnant and multiplies the rate by
\* 1.5, where the window 1 .. 10 holds two values
C26_Witness ==
    /\ run_pc \in {"populate", "returned"}
    /\ loop_generation = StagnationWindow + 1
    /\ \A g \in 0..(StagnationWindow - 1) : AvgFitness(g) = <<1, 1>>
    /\ AvgFitness(StagnationWindow) = <<3, 1>>
    /\ ga.mutation_rate_history[StagnationWindow + 1] = <<1, 2>>
    /\ ga.mutation_rate_lower_limit = <<1, 10>>
    /\ ga.mutation_rate = <<1, 4>>

\* C26 second case: ten generations 0 .. 9 of average fitness 1 are recorded
\* and the check after generation 9 has left the rate 1 alone
C26_TenRecordedNoCheck ==
    /\ run_pc = "populate"
    /\ loop_generation = StagnationWindow
    /\ DOMAIN ga.generations_cache = 0..(StagnationWindow - 1)
    /\ \A g \in 0..(StagnationWindow - 1) : AvgFitness(g) = <<1, 1>>
    /\ ga.mutation_rate = <<1, 1>>

-----------------------------------------------------------------------------
(* Properties of the enrichment in populate(), checked under SpecRun *)

RecordedGenerations == Cardinality(DOMAIN ga.generations_cache)

-----------------------------------------------------------------------------
(* SpecEnrich: one call of populate() at generation 5, an enrichment       *)
(* generation, for population sizes from which individuals are generated.  *)

EnrichSizes == {4, 12, 20}

\* the object at the head of the loop of run() before generation g, after a
\* run in which the population has been P throughout
ObjectBefore(g, w, size, P) ==
    LET ev == evaluate_all([NewGARun(MaxGridSize, w, size, g + 1, <<1, 2>>, <<1, 10>>)
                               EXCEPT !.population = P, !.initial_population = P], P)
    IN  [ev EXCEPT !.generations_cache = [k \in 0..(g - 1) |-> GenerationStatistics(ev)],
                   !.mutation_rate_history = [i \in 1..g |-> ev.mutation_rate]]

InitEnrich ==
    /\ game = NoObject
    /\ limiter = 0
    /\ pc = NoObject
    /\ steps = 0
    /\ current_grid = <<>>
    /\ neighbor_count = <<>>
    /\ next_grid = <<>>
    /\ called = NoObject
    /\ simulations = NoObject
    /\ first_result = NoObject
    /\ FnIdle
    /\ \E w \in WeightProfiles : \E size \in EnrichSizes : \E P \in SelectPopulations(MaxGridSize) :
          ga = ObjectBefore(EnrichEvery, w, size, P)
    /\ run_pc = "populate"
    /\ loop_generation = EnrichEvery
    /\ pool = NoPool
    /\ drawn_freely = FALSE
    /\ experiment_results = <<>>

NextEnrich ==
    \/ PopulateClones
    \/ PopulateFreely
    \/ PopulateRaises

SpecEnrich == InitEnrich /\ [][NextEnrich]_vars

Injected == run_pc = "compute_generation" /\ pool.enriching

\* C28: at each diversity injection population_size // 4 individuals are
\* generated, the same number of each of the three families, and they are
\* in the pool that is ranked
C28_QuarterInjected ==
    Injected =>
        /\ pool.amounts[1] + pool.amounts[2] + pool.amounts[3] = ga.population_size \div 4
        /\ pool.amounts[1] = pool.amounts[2] /\ pool.amounts[2] = pool.amounts[3]
        /\ (pool.population \ pool.previous) \subseteq (pool.population \cup pool.new_population)

\* C28, as the code behaves: (population_size // 4) // 3 individuals of each
\* family are generated, the remainder of the division by 3 being dropped:
\* none at all for a population_size below 12
C28_ThirdsOfQuarterInjected ==
    Injected =>
        /\ pool.amounts[1] = (ga.population_size \div 4) \div 3
        /\ pool.amounts[1] = pool.amounts[2] /\ pool.amounts[2] = pool.amounts[3]
        /\ pool.amounts[1] + pool.amounts[2] + pool.amounts[3]
              = (ga.population_size \div 4) - ((ga.population_size \div 4) % 3)
        /\ Cardinality(pool.population \ pool.previous) <= 3 * pool.amounts[1]
        /\ (pool.population \ pool.previous) \subseteq (pool.population \cup pool.new_population)

\* C28 witness: population_size 20, three individuals generated where
\* 20 // 4 is 5, one of them new to the population
C28_Witness ==
    /\ Injected
    /\ ga.population_size = 20
    /\ pool.amounts = <<1, 1, 1>>
    /\ Cardinality(pool.population \ pool.previous) = 1

\* C29: during populate() self.population is what it was at entry until the
\* assignment that replaces it: when the pool is ranked it is neither partly
\* old and partly new nor larger than population_size
C29_PopulationReplacedAtomically ==
    run_pc = "compute_generation" =>
        /\ pool.population = pool.previous
        /\ Cardinality(pool.population) <= ga.population_size

\* C29, as the code behaves: enrich_population_with_variety adds what it
\* generates to self.population itself, so at the ranking self.population is
\* the population at entry and up to 3 * ((population_size // 4) // 3) more
C29_PopulationGrownInPlace ==
    run_pc = "compute_generation" =>
        /\ pool.previous \subseteq pool.population
        /\ Cardinality(pool.population \ pool.previous) <= pool.amounts[1] + pool.amounts[2] + pool.amounts[3]

\* C29 witness: at the ranking self.population holds the two configurations
\* it held at entry and two generated ones
C29_Witness ==
    /\ run_pc = "compute_generation"
    /\ ga.population_size = 12
    /\ Cardinality(pool.previous) = 2
    /\ pool.previous \subseteq pool.population
    /\ Cardinality(pool.population \ pool.previous) = 2

-----------------------------------------------------------------------------
(* Properties of the two histories of a GameOfLife run, checked under Spec *)

NextGeneration(grid, N) == compute_next_generation(grid, count_alive_neighbors(grid, N))

\* C30: when run() has returned, history lists the grids of the run in
\* order, one entry per generation, and alive_history is parallel to it:
\* the same length, alive_history[i] the number of live cells of history[i]
C30_ParallelHistories ==
    pc = "done" =>
        /\ Len(game.history) = Len(game.alive_history)
        /\ \A i \in 1..Len(game.history) :
              /\ i <= Len(game.alive_history) => game.alive_history[i] = SumSeq(game.history[i])
              /\ i = 1 => game.history[i] = game.initial_state
              /\ i > 1 => game.history[i] = NextGeneration(game.history[i - 1], game.grid_size)

\* C30, as the code behaves: alive_history starts with the count of the
\* initial grid and gains one entry per loop iteration (the all-dead
\* iteration included), history gains one entry per iteration that calls
\* step() and a second one in every step() that moves to a new grid
C30_HistoriesAsRecorded ==
    /\ Len(game.history) = steps + Cardinality(game.unique_states) - 1
    /\ Len(game.alive_history) \in {steps + 1, steps + 2}
    /\ Len(game.alive_history) = steps + 2 => (pc = "done" /\ NoCellAlive(game))
    /\ \A i \in 1..Len(game.history) : game.history[i] \in game.unique_states
    /\ game.alive_history[1] = SumSeq(game.initial_state)

\* C30 witness: the run of a single live cell has returned with history
\* [s0, s0] and alive_history [1, 1, 0]
C30_Witness ==
    /\ pc = "done"
    /\ SumSeq(game.initial_state) = 1
    /\ game.history = <<game.initial_state, game.initial_state>>
    /\ game.alive_history = <<1, 1, 0>>

\* C30 second case: the run of the block has returned with 11 entries in
\* history and 12 in alive_history
C30_BlockLengthsDiffer ==
    /\ pc = "done"
    /\ game.initial_state = Block(game.grid_size)
    /\ game.is_static
    /\ Len(game.history) = MaxStableGenerations + 1
    /\ Len(game.alive_history) = MaxStableGenerations + 2

-----------------------------------------------------------------------------
(* Properties of rank_based_selection, checked under SpecSelect *)

RECURSIVE SumOfProbabilities(_, _)
SumOfProbabilities(table, r) ==
    IF r = 0 THEN RatInt(0) ELSE RatAdd(table[r].probability, SumOfProbabilities(table, r - 1))

\* C31: rank_based_selection lists the population by fitness descending and
\* gives the member at 1-based position r the weight r / (1 + 2 + ... + n):
\* the weights grow with the position, the fittest member having the
\* smallest, and the member returned is one of the population
C31_WeightIsRankPosition ==
    run_pc = "rank_based_selection" =>
        LET n == Cardinality(ga.population)
        IN  /\ Len(fn_lst) = n
            /\ {fn_lst[r].individual : r \in 1..n} = ga.population
            /\ \A r \in 1..(n - 1) :
                  ~RatLess(FitnessOf(ga, fn_lst[r].individual), FitnessOf(ga, fn_lst[r + 1].individual))
            /\ \A r \in 1..n : fn_lst[r].probability[1] * n * (n + 1) = 2 * r * fn_lst[r].probability[2]
            /\ SumOfProbabilities(fn_lst, n) = RatInt(1)
            /\ fn_result.outcome = "returned"
            /\ fn_result.value \in ga.population

\* C31 witness: three members of different fitness, and the least fit of
\* them, of weight 3/6, was returned
C31_Witness ==
    /\ run_pc = "rank_based_selection"
    /\ Len(fn_lst) = 3
    /\ RatLess(FitnessOf(ga, fn_lst[3].individual), FitnessOf(ga, fn_lst[2].individual))
    /\ RatLess(FitnessOf(ga, fn_lst[2].individual), FitnessOf(ga, fn_lst[1].individual))
    /\ fn_lst[3].probability = <<1, 2>>
    /\ fn_result.value = fn_lst[3].individual

-----------------------------------------------------------------------------
(* Properties of the course of a GameOfLife run, checked under Spec *)

\* C32: run() makes at most game_iteration_limit loop iterations (every
\* iteration either lowers the limiter, which stays >= 0, or ends the run);
\* at the end lifespan + stable_count <= game_iteration_limit, and a run
\* that ends with neither is_static nor is_periodic set has
\* lifespan = game_iteration_limit
C32_RunBounded ==
    /\ [](/\ limiter >= 0
          /\ steps + limiter = game.game_iteration_limit
          /\ game.lifespan + game.stable_count = steps
          /\ pc = "done" =>
                /\ game.lifespan + game.stable_count <= game.game_iteration_limit
                /\ (~game.is_static /\ ~game.is_periodic) =>
                      game.lifespan = game.game_iteration_limit)
    /\ [][pc = "loop" => (pc' = "done" \/ (limiter' = limiter - 1 /\ steps' = steps + 1))]_vars

\* C32 witness: a run has ended after game_iteration_limit = 2 iterations
\* with neither flag set
C32_Witness ==
    /\ pc = "done"
    /\ game.game_iteration_limit = 2
    /\ limiter = 0
    /\ ~game.is_static /\ ~game.is_periodic
    /\ game.lifespan = 2

\* C33: is_static and is_periodic are never both true, and a flag that is
\* set stays set
C33_FlagsExclusiveAndSticky ==
    /\ [](~(game.is_static /\ game.is_periodic))
    /\ [][/\ game.is_static => game'.is_static
          /\ game.is_periodic => game'.is_periodic]_vars

\* C33 witness: the run goes on through the stability window after
\* is_periodic was set, with is_static still unset
C33_Witness ==
    /\ pc = "loop"
    /\ game.is_periodic
    /\ ~game.is_static
    /\ game.stable_count = 3

Flagged == game.is_static \/ game.is_periodic

\* C34: once a run is flagged Static or Periodic, the working grid and the
\* set of visited states never change again, and every entry history gains
\* from then on is that same grid (for a Periodic run the grid before the
\* cycle closed)
C34_FrozenAfterFlag ==
    [][Flagged =>
          /\ game'.grid = game.grid
          /\ game'.unique_states = game.unique_states
          /\ game'.history \in {game.history, Append(game.history, game.grid)}]_vars

\* C34 witness: a Periodic run in its stability window whose last three
\* history entries are the grid it stopped on, the successor of which is
\* another grid
C34_Witness ==
    /\ game.is_periodic
    /\ game.stable_count = 3
    /\ Len(game.history) >= 3
    /\ \A i \in (Len(game.history) - 2)..Len(game.history) : game.history[i] = game.grid
    /\ NextGeneration(game.grid, game.grid_size) # game.grid
    /\ NextGeneration(game.grid, game.grid_size) \in game.unique_states

-----------------------------------------------------------------------------
(* Properties of the population across populate(), checked under SpecRun.  *)
(* In a state with run_pc = "compute_generation" populate() has just       *)
(* returned: pool.previous is the population at its entry and              *)
(* ga.population the one it assigned.                                      *)

\* C35: the maximum fitness_score over the population after populate() is at
\* least the maximum over the population before it
C35_BestFitnessKept ==
    (run_pc = "compute_generation" /\ pool.previous # {}) =>
        /\ ga.population # {}
        /\ ~RatLess(MaxFitness(ga, ga.population), MaxFitness(ga, pool.previous))

\* C35 witness: populate() has drawn a child less fit than every member of
\* the previous population, and the best fitness is what it was
C35_Witness ==
    /\ run_pc = "compute_generation"
    /\ pool.previous # {}
    /\ \E c \in pool.children : \A d \in pool.previous : RatLess(FitnessOf(ga, c), FitnessOf(ga, d))
    /\ MaxFitness(ga, ga.population) = MaxFitness(ga, pool.previous)

\* C36: after every populate() that completes, the population has at least
\* min(|previous population|, ceil(population_size / 2)) members, and a
\* non-empty population has not become empty
C36_PopulationFloor ==
    run_pc = "compute_generation" =>
        LET half == (ga.population_size + 1) \div 2
            before == Cardinality(pool.previous)
        IN  /\ Cardinality(ga.population) >= (IF before < half THEN before ELSE half)
            /\ pool.previous # {} => ga.population # {}

\* C36 witness: a population of 3 has shrunk to 2 = ceil(3 / 2), its fittest
\* members taking the three places of the ranked list between them
C36_Witness ==
    /\ run_pc = "compute_generation"
    /\ ga.population_size = 3
    /\ Cardinality(pool.previous) = 3
    /\ Cardinality(ga.population) = 2

-----------------------------------------------------------------------------
(* The three crossover strategies, each called on its own on two parents of
   grid_size * grid_size cells *)

\* the grid sizes the crossovers are called with
CrossSizes == {2, 3}

\* the parents: every way to set two cells of the first row, one of the
\* second row and the last cell
CrossParents(N) == {GridOf(N * N, S) : S \in SUBSET {0, 1, N, N * N - 1}}

InitCross ==
    /\ game = NoObject
    /\ limiter = 0
    /\ pc = NoObject
    /\ steps = 0
    /\ current_grid = <<>>
    /\ neighbor_count = <<>>
    /\ next_grid = <<>>
    /\ called = NoObject
    /\ simulations = NoObject
    /\ first_result = NoObject
    /\ RunIdle
    /\ \E N \in CrossSizes :
          /\ ga = NewGA(N, CHOOSE w \in SelectProfiles : TRUE)
          /\ fn_lst \in CrossParents(N) \X CrossParents(N)
    /\ fn_result = [outcome |-> "none", value |-> <<>>, method |-> "none"]

\* the call crossover_basic(*fn_lst)
CrossoverBasic ==
    /\ fn_result.outcome = "none"
    /\ fn_result' = [outcome |-> "returned", method |-> "crossover_basic",
                     value |-> crossover_basic(ga, fn_lst[1], fn_lst[2])]
    /\ UNCHANGED <<lifeVars, gaVars, runVars, fn_lst>>

\* the call crossover_simple(*fn_lst)
CrossoverSimple ==
    /\ fn_result.outcome = "none"
    /\ fn_result' = [outcome |-> "returned", method |-> "crossover_simple",
                     value |-> crossover_simple(ga, fn_lst[1], fn_lst[2])]
    /\ UNCHANGED <<lifeVars, gaVars, runVars, fn_lst>>

\* the call crossover_complex(*fn_lst)
CrossoverComplex ==
    /\ fn_result.outcome = "none"
    /\ \E child \in crossover_complex(ga, fn_lst[1], fn_lst[2]) :
          fn_result' = [outcome |-> "returned", method |-> "crossover_complex",
                        value |-> child]
    /\ UNCHANGED <<lifeVars, gaVars, runVars, fn_lst>>

NextCross == CrossoverBasic \/ CrossoverSimple \/ CrossoverComplex

SpecCross == InitCross /\ [][NextCross]_vars

\* the rows of two parents joined in every way, before any repair
JoinedRows(N, parent1, parent2) ==
    {child_blocks(N, from, parent1, parent2, N) : from \in [0..(N - 1) -> {1, 2}]}

\* C37: for two parents of grid_size * grid_size cells (grid_size >= 2) and
\* each of the three strategies, the child has exactly grid_size * grid_size
\* cells and each of its cells is the cell of one of the parents at the same
\* index; the rows joined by the row strategies already have that length, so
\* the child is those rows with no zero appended; and crossing a
\* configuration with itself gives it back
C37_ChildCellsFromParents ==
    fn_result.outcome # "none" /\ fn_result.method # "none" =>
        LET N       == ga.grid_size
            parent1 == fn_lst[1]
            parent2 == fn_lst[2]
            child   == fn_result.value
        IN  /\ N >= 2 /\ Len(parent1) = N * N /\ Len(parent2) = N * N
            /\ fn_result.outcome = "returned"
            /\ Len(child) = N * N
            /\ \A k \in 1..(N * N) : child[k] \in {parent1[k], parent2[k]}
            /\ \A blocks \in JoinedRows(N, parent1, parent2) : Len(blocks) = N * N
            /\ fn_result.method # "crossover_basic" =>
                   child \in JoinedRows(N, parent1, parent2)
            /\ parent1 = parent2 => child = parent1

\* C37 witness: crossover_complex on a 3 x 3 grid gave a child that is
\* neither parent
C37_Witness ==
    /\ fn_result.outcome = "returned"
    /\ fn_result.method = "crossover_complex"
    /\ ga.grid_size = 3
    /\ fn_lst = <<GridOf(9, {0, 1, 3}), GridOf(9, {8})>>
    /\ fn_result.value = GridOf(9, {0, 1, 8})

-----------------------------------------------------------------------------
(* max_difference_with_distance on the alive_history of a finished run,     *)
(* checked under Spec                                                       *)

\* no alive count is above an earlier one
NeverRises(lst) == \A i, j \in 1..Len(lst) : i < j => lst[j] <= lst[i]

\* C39: the alive_history of a finished run with game_iteration_limit >= 1
\* has at least 2 entries, and on it max_difference_with_distance does not
\* divide by zero and returns a value >= 0, which is 0 when no alive count is
\* above an earlier one
C39_GrowthDefinedAndNonNegative ==
    pc = "done" /\ game.game_iteration_limit >= 1 =>
        LET lst == game.alive_history
            v   == max_difference_with_distance(lst)
        IN  /\ Len(lst) >= 2
            /\ v # ZeroDivisionError
            /\ ~RatLess(v, RatInt(0))
            /\ NeverRises(lst) => v = RatInt(0)

\* C39 witness: a finished run whose alive count fell and never rose, with
\* growth 0
C39_Witness ==
    /\ pc = "done"
    /\ Len(game.alive_history) >= 3
    /\ NeverRises(game.alive_history)
    /\ Last(game.alive_history) < game.alive_history[1]
    /\ max_difference_with_distance(game.alive_history) = RatInt(0)

\* a finished run whose alive count rose: the growth is positive
C39_GrowthPositive ==
    /\ pc = "done"
    /\ ~NeverRises(game.alive_history)
    /\ RatLess(RatInt(0), max_difference_with_distance(game.alive_history))

-----------------------------------------------------------------------------
(* SpecLoop: run() and get_experiment_results() as in SpecRun, started      *)
(* either at the constructor or at the head of the loop before an           *)
(* enrichment generation that generates individuals (InitEnrich)            *)

InitLoop == InitRun \/ InitEnrich

SpecLoop == InitLoop /\ [][NextRun]_vars

\* the keys of a record evaluate() stores
RecordKeys ==
    { "fitness_score", "history", "lifespan", "alive_growth", "max_alive_cells_count",
      "is_static", "is_periodic", "stableness", "initial_living_cells_count" }

\* the configuration has a record with every key in configuration_cache
CompleteRecord(self, c) ==
    /\ c \in DOMAIN self.configuration_cache
    /\ DOMAIN self.configuration_cache[c] = RecordKeys

\* C38: once initialize() is done, and so after every generation, every
\* member of population and of initial_population has a complete record in
\* configuration_cache; get_experiment_results lists exactly such records,
\* those of initial_population among them; and no call after initialize(),
\* a populate() that injects individuals included, changes
\* initial_population
C38_RecordsComplete ==
    /\ [](run_pc # "initialize" =>
            /\ \A c \in ga.population \cup ga.initial_population : CompleteRecord(ga, c)
            /\ run_pc = "results" =>
                  /\ \A i \in 1..Len(experiment_results) :
                        /\ CompleteRecord(ga, experiment_results[i].config)
                        /\ experiment_results[i].history =
                               ga.configuration_cache[experiment_results[i].config].history
                  /\ {experiment_results[i].config :
                         i \in {k \in 1..Len(experiment_results) :
                                   experiment_results[k].is_first_generation}}
                       = ga.initial_population)
    /\ [][run_pc # "initialize" => ga'.initial_population = ga.initial_population]_vars

\* C38 witness: the results of a run whose last populate() injected
\* individuals into the population in place and left a population other
\* than the initial one
C38_Witness ==
    /\ run_pc = "results"
    /\ pool.enriching
    /\ pool.population # pool.previous
    /\ ga.initial_population = pool.previous
    /\ ga.population # ga.initial_population

\* the results of a run from the constructor on, the population no longer
\* the initial one
C38_FullRunResults ==
    /\ run_pc = "results"
    /\ Cardinality(DOMAIN ga.generations_cache) = MaxGenerations
    /\ ga.population # ga.initial_population
    /\ ga.initial_population # {}


====
